---------------------------- MODULE Spec2Model ----------------------------
(***************************************************************************)
(* Model of the concept knowledge graph of buddy:                          *)
(*   buddy/knowledge/graph.py      KnowledgeGraph (SQLite node/edge store) *)
(*   buddy/knowledge/extractor.py  ConceptExtractor                        *)
(*                                                                         *)
(* The two SQLite tables are sequences of rows in rowid order.  INSERT OR  *)
(* REPLACE deletes the row holding the same primary key and appends the    *)
(* new row; UPDATE rewrites a row in place; DELETE removes rows.           *)
(*                                                                         *)
(* Reals are fixed point numbers: a confidence c is the integer            *)
(* c * ConfOne, an edge weight w is the integer w * WeightOne.             *)
(***************************************************************************)
EXTENDS Integers, Sequences, FiniteSets, TLC

VARIABLES
    nodes,      \* table nodes, rows in rowid order
    edges,      \* table edges, rows in rowid order
    last,       \* the call that produced this state: operation, arguments, outcome
    ret         \* the value that call returned (a sequence of rows, or <<>>)

vars == <<nodes, edges, last, ret>>

----------------------------------------------------------------------------
(* Scales and bounds *)

\* confidence 1.0 in fixed point (unit 0.05)
ConfOne == 20
\* edge weight 1.0 in fixed point (unit 0.1)
WeightOne == 10
\* largest edge weight the model lets UpdateEdgeWeight reach
MaxWeight == 15

Min(a, b) == IF a < b THEN a ELSE b
Max(a, b) == IF a > b THEN a ELSE b

Range(s) == {s[i] : i \in DOMAIN s}

\* SQL NULL and Python None where a string is expected
NULL == "NULL"
\* Python None where a row is expected (fetchone() found nothing)
None == [id |-> NULL]

----------------------------------------------------------------------------
(* graph.py: rows *)

\* the connection left at SQLite's default, foreign keys not enforced
foreign_keys_off == FALSE

\* PRAGMA foreign_keys=ON: edges.source_id and edges.target_id REFERENCES nodes(id)
foreign_keys == TRUE

Node(id, type, label, data, doc_id, confidence, created_at) ==
    [id |-> id, type |-> type, label |-> label, data |-> data,
     doc_id |-> doc_id, confidence |-> confidence, created_at |-> created_at]

Edge(id, source_id, target_id, rel_type, weight) ==
    [id |-> id, source_id |-> source_id, target_id |-> target_id,
     rel_type |-> rel_type, weight |-> weight]

\* the data column: a JSON object, here a function from its keys to values
NoData == [k \in {} |-> 0]
PageData(page) == [k \in {"page"} |-> page]

\* json_extract(data, '$.key'): <<value>>, or <<>> (SQL NULL) when the key
\* is absent
json_extract(data, key) == IF key \in DOMAIN data THEN <<data[key]>> ELSE <<>>

Ids(table) == {table[i].id : i \in DOMAIN table}

\* DELETE FROM table WHERE id = ?
DeleteById(table, id) == SelectSeq(table, LAMBDA r : r.id # id)

----------------------------------------------------------------------------
(* graph.py: node CRUD, as functions of the tables *)

\* INSERT OR IGNORE: an existing row is kept
add_node_ignore(N, node) == IF node.id \in Ids(N) THEN N ELSE Append(N, node)

\* INSERT OR REPLACE INTO nodes: the parent row is back at the end of the
\* statement, so the immediate foreign key check passes and edges stay
add_node(N, node) == Append(DeleteById(N, node.id), node)

get_node(N, id) ==
    IF id \in Ids(N) THEN (CHOOSE r \in Range(N) : r.id = id) ELSE None

\* DELETE FROM edges WHERE source_id = ?
delete_outgoing(E, id) == SelectSeq(E, LAMBDA e : e.source_id # id)

\* DELETE FROM edges WHERE source_id = ? OR target_id = ?
delete_incident(E, id) ==
    SelectSeq(E, LAMBDA e : ~(e.source_id = id \/ e.target_id = id))

\* the edges are deleted first, then the node; with foreign keys on, a node
\* still referenced by an edge cannot be deleted (IntegrityError)
delete_node(N, E, id) ==
    LET E2 == delete_incident(E, id)
        referenced == \E e \in Range(E2) : e.source_id = id \/ e.target_id = id
    IN  IF foreign_keys /\ referenced
        THEN [nodes |-> N, edges |-> E, raised |-> TRUE]
        ELSE [nodes |-> DeleteById(N, id), edges |-> E2, raised |-> FALSE]

\* MAX(0.0, confidence + ?), the upper bound forgotten
clamp_confidence_below(c) == Max(0, c)

\* MIN(1.0, MAX(0.0, confidence + ?))
clamp_confidence(c) == Min(ConfOne, Max(0, c))

\* UPDATE nodes SET confidence = ... WHERE id = ?
update_node_confidence(N, id, delta) ==
    [i \in DOMAIN N |->
        IF N[i].id = id
        THEN [N[i] EXCEPT !.confidence = clamp_confidence(@ + delta)]
        ELSE N[i]]

----------------------------------------------------------------------------
(* graph.py: edge CRUD *)

\* a plain INSERT that keeps the old row of the same id
add_edge_append(N, E, edge) ==
    IF foreign_keys /\ ~({edge.source_id, edge.target_id} \subseteq Ids(N))
    THEN [edges |-> E, raised |-> TRUE]
    ELSE [edges |-> Append(E, edge), raised |-> FALSE]

\* INSERT OR REPLACE INTO edges; with foreign keys on the statement fails
\* (sqlite3.IntegrityError) unless both endpoints are rows of nodes
add_edge(N, E, edge) ==
    IF foreign_keys /\ ~({edge.source_id, edge.target_id} \subseteq Ids(N))
    THEN [edges |-> E, raised |-> TRUE]
    ELSE [edges |-> Append(DeleteById(E, edge.id), edge), raised |-> FALSE]

\* SELECT * FROM edges WHERE source_id = ? [AND rel_type = ?]
get_edges_from(E, id, rel_type) ==
    SelectSeq(E, LAMBDA e : e.source_id = id
                            /\ (rel_type = NULL \/ e.rel_type = rel_type))

\* SELECT * FROM edges WHERE target_id = ? [AND rel_type = ?]
get_edges_to(E, id, rel_type) ==
    SelectSeq(E, LAMBDA e : e.target_id = id
                            /\ (rel_type = NULL \/ e.rel_type = rel_type))

\* the weight clamped like a confidence, into [0, 1]
clamp_weight_unit(w) == Min(WeightOne, Max(0, w))

\* MAX(0.0, weight + ?)
clamp_weight(w) == Max(0, w)

\* UPDATE edges SET weight = MAX(0.0, weight + ?) WHERE id = ?
update_edge_weight(E, id, delta) ==
    [i \in DOMAIN E |->
        IF E[i].id = id
        THEN [E[i] EXCEPT !.weight = clamp_weight(@ + delta)]
        ELSE E[i]]

\* DELETE FROM edges WHERE id = ?
delete_edge(E, id) == DeleteById(E, id)

----------------------------------------------------------------------------
(* graph.py: find_nodes *)

\* labels and names are sequences of one-character strings
Lower(ch) ==
    CASE ch = "A" -> "a" [] ch = "B" -> "b" [] ch = "C" -> "c"
      [] ch = "D" -> "d" [] OTHER -> ch

\* str.lower()
lower(s) == [i \in DOMAIN s |-> Lower(s[i])]

\* a LIKE that tells the letter cases apart
RECURSIVE like_exact(_, _)
like_exact(s, pat) ==
    IF pat = <<>> THEN s = <<>>
    ELSE IF Head(pat) = "%"
         THEN like_exact(s, Tail(pat)) \/ (s # <<>> /\ like_exact(Tail(s), pat))
    ELSE IF s = <<>> THEN FALSE
    ELSE (Head(pat) = "_" \/ Head(pat) = Head(s))
         /\ like_exact(Tail(s), Tail(pat))

\* SQLite's LIKE: % matches any run of characters, _ any one character, and
\* letters match without regard to case
RECURSIVE like(_, _)
like(s, pat) ==
    IF pat = <<>> THEN s = <<>>
    ELSE IF Head(pat) = "%"
         THEN like(s, Tail(pat)) \/ (s # <<>> /\ like(Tail(s), pat))
    ELSE IF s = <<>> THEN FALSE
    ELSE (Head(pat) = "_" \/ Lower(Head(pat)) = Lower(Head(s)))
         /\ like(Tail(s), Tail(pat))

\* ORDER BY confidence DESC alone
before_by_confidence(a, b) == a.confidence > b.confidence

\* a row comes before another under ORDER BY confidence DESC, created_at DESC
before(a, b) ==
    \/ a.confidence > b.confidence
    \/ a.confidence = b.confidence /\ a.created_at > b.created_at

\* insert a row into a sorted sequence, after the rows it does not precede
RECURSIVE insert_sorted(_, _)
insert_sorted(sorted, r) ==
    IF sorted = <<>> THEN <<r>>
    ELSE IF before(r, Head(sorted)) THEN <<r>> \o sorted
    ELSE <<Head(sorted)>> \o insert_sorted(Tail(sorted), r)

RECURSIVE order_by(_)
order_by(rows) ==
    IF rows = <<>> THEN <<>>
    ELSE insert_sorted(order_by(SubSeq(rows, 1, Len(rows) - 1)), rows[Len(rows)])

\* LIMIT ?
limit_rows(rows, limit) == SubSeq(rows, 1, Min(limit, Len(rows)))

\* a filter that is None or empty is not applied (if node_type: ...); an
\* absent label_contains is <<>>
find_nodes(N, node_type, doc_id, label_contains, limit) ==
    LET matches(r) ==
            /\ (node_type = NULL \/ r.type = node_type)
            /\ (doc_id = NULL \/ doc_id = "" \/ r.doc_id = doc_id)
            /\ (label_contains = <<>>
                \/ like(r.label, <<"%">> \o label_contains \o <<"%">>))
    IN  limit_rows(order_by(SelectSeq(N, matches)), limit)

----------------------------------------------------------------------------
(* graph.py: get_prerequisites *)

\* edges followed from a node although they are not depends_on edges
any_edges_from(E, nid) == get_edges_from(E, nid, NULL)

\* self.get_edges_from(nid, rel_type=EdgeType.DEPENDS_ON)
depends_on_edges_from(E, nid) == get_edges_from(E, nid, "depends_on")

\* for edge in edges: a target not yet visited is fetched and, when the node
\* exists, appended to the result and to the next queue
RECURSIVE scan_edges(_, _, _, _)
scan_edges(N, es, visited, acc) ==
    IF es = <<>> THEN acc
    ELSE LET target == Head(es).target_id
             node == get_node(N, target)
         IN  scan_edges(N, Tail(es), visited,
                IF target \notin visited /\ node # None
                THEN [result |-> Append(acc.result, node),
                      next_queue |-> Append(acc.next_queue, target)]
                ELSE acc)

\* for nid in queue: a visited id is skipped, another is marked visited and
\* its depends_on edges are scanned
RECURSIVE scan_queue(_, _, _, _, _)
scan_queue(N, E, queue, visited, acc) ==
    IF queue = <<>> THEN [visited |-> visited, result |-> acc.result,
                          next_queue |-> acc.next_queue]
    ELSE LET nid == Head(queue)
         IN  IF nid \in visited
             THEN scan_queue(N, E, Tail(queue), visited, acc)
             ELSE scan_queue(N, E, Tail(queue), visited \cup {nid},
                    scan_edges(N, depends_on_edges_from(E, nid),
                               visited \cup {nid}, acc))

\* for _ in range(depth): one level of the traversal per round
RECURSIVE walk_levels(_, _, _, _, _, _)
walk_levels(N, E, depth, queue, visited, result) ==
    IF depth <= 0 THEN result
    ELSE LET level == scan_queue(N, E, queue, visited,
                        [result |-> result, next_queue |-> <<>>])
         IN  walk_levels(N, E, depth - 1, level.next_queue, level.visited,
                         level.result)

get_prerequisites(N, E, concept_id, depth) ==
    walk_levels(N, E, depth, <<concept_id>>, {}, <<>>)

----------------------------------------------------------------------------
(* graph.py: get_concepts_for_page *)

\* WHERE p.type = 'page_chunk' AND json_extract(p.data, '$.page') = ?, the
\* condition on p.doc_id forgotten
is_chunk_of_any_doc(p, doc_id, page) ==
    /\ p.type = "page_chunk"
    /\ json_extract(p.data, "page") = <<page>>

\* WHERE p.type = 'page_chunk' AND p.doc_id = ?
\*   AND json_extract(p.data, '$.page') = ?
is_chunk_of(p, doc_id, page) ==
    /\ p.type = "page_chunk"
    /\ p.doc_id = doc_id
    /\ json_extract(p.data, "page") = <<page>>

\* ORDER BY e.weight DESC; rows of equal weight stay in rowid order
RECURSIVE insert_by_weight(_, _)
insert_by_weight(sorted, e) ==
    IF sorted = <<>> THEN <<e>>
    ELSE IF e.weight > Head(sorted).weight THEN <<e>> \o sorted
    ELSE <<Head(sorted)>> \o insert_by_weight(Tail(sorted), e)

\* the rows left in rowid order
order_by_rowid(rows) == rows

RECURSIVE order_by_weight(_)
order_by_weight(rows) ==
    IF rows = <<>> THEN <<>>
    ELSE insert_by_weight(order_by_weight(SubSeq(rows, 1, Len(rows) - 1)),
                          rows[Len(rows)])

\* SELECT c.* FROM nodes c JOIN edges e ON e.target_id = c.id
\*   JOIN nodes p ON p.id = e.source_id WHERE ...: one row per joined edge
get_concepts_for_page(N, E, doc_id, page) ==
    LET joined(e) ==
            /\ e.rel_type = "mentions"
            /\ e.target_id \in Ids(N)
            /\ get_node(N, e.target_id).type \in {"concept", "claim"}
            /\ e.source_id \in Ids(N)
            /\ is_chunk_of(get_node(N, e.source_id), doc_id, page)
        rows == order_by_weight(SelectSeq(E, joined))
    IN  [i \in DOMAIN rows |-> get_node(N, rows[i].target_id)]

----------------------------------------------------------------------------
(* graph.py: get_confusion_history *)

\* ORDER BY s.created_at DESC; rows of equal created_at stay in join order
RECURSIVE insert_by_created_at(_, _)
insert_by_created_at(sorted, r) ==
    IF sorted = <<>> THEN <<r>>
    ELSE IF r.created_at > Head(sorted).created_at THEN <<r>> \o sorted
    ELSE <<Head(sorted)>> \o insert_by_created_at(Tail(sorted), r)

RECURSIVE order_by_created_at(_)
order_by_created_at(rows) ==
    IF rows = <<>> THEN <<>>
    ELSE insert_by_created_at(
            order_by_created_at(SubSeq(rows, 1, Len(rows) - 1)),
            rows[Len(rows)])

\* SELECT s.* FROM nodes s JOIN edges e ON e.source_id = s.id
\*   WHERE e.target_id IN (...) AND e.rel_type = 'confused_at'
\*   AND s.type = 'signal': one row per joined edge
join_confused_at(N, E, concept_ids) ==
    LET joined(e) ==
            /\ e.target_id \in Range(concept_ids)
            /\ e.rel_type = "confused_at"
            /\ e.source_id \in Ids(N)
            /\ get_node(N, e.source_id).type = "signal"
        rows == SelectSeq(E, joined)
    IN  [i \in DOMAIN rows |-> get_node(N, rows[i].source_id)]

\* doc_id is not used by the query
get_confusion_history(N, E, doc_id, concept_ids, limit) ==
    IF concept_ids = <<>> THEN <<>>
    ELSE limit_rows(order_by_created_at(join_confused_at(N, E, concept_ids)),
                    limit)

----------------------------------------------------------------------------
(* retriever.py: ContextBundle and get_context_bundle *)

\* max_concepts: int = 7, max_prereqs: int = 5
MaxBundleConcepts == 7
MaxBundlePrereqs == 5
\* len(bundle.claims) < 5
MaxBundleClaims == 5
\* concept_ids[:5]
MaxPrereqLookups == 5
\* get_prerequisites(cid, depth=2)
PrereqDepth == 2
\* get_confusion_history(doc_id, concept_ids, limit=5)
ConfusionLimit == 5

ContextBundle(passage, concepts, prerequisites, claims, confusion_history) ==
    [passage |-> passage, concepts |-> concepts,
     prerequisites |-> prerequisites, claims |-> claims,
     confusion_history |-> confusion_history]

\* a bundle with a passage counted as not empty
is_empty_without_passage(bundle) ==
    /\ bundle.passage = ""
    /\ bundle.concepts = <<>>
    /\ bundle.prerequisites = <<>>
    /\ bundle.claims = <<>>
    /\ bundle.confusion_history = <<>>

\* not (concepts or prerequisites or claims or confusion_history)
is_empty(bundle) ==
    /\ bundle.concepts = <<>>
    /\ bundle.prerequisites = <<>>
    /\ bundle.claims = <<>>
    /\ bundle.confusion_history = <<>>

\* dict.get(key, default)
data_get(data, key, default) ==
    IF key \in DOMAIN data THEN data[key] ELSE default

\* seq[:n]
take(rows, n) == SubSeq(rows, 1, Min(n, Len(rows)))

\* the concatenation of a sequence of sequences
RECURSIVE concat(_)
concat(seqs) == IF seqs = <<>> THEN <<>> ELSE Head(seqs) \o concat(Tail(seqs))

\* step 1: a concept node is listed while fewer than max_concepts are; a
\* claim node while fewer than 5 are; every other node is passed over
page_concepts(page_nodes, max_concepts) ==
    take(SelectSeq(page_nodes, LAMBDA n : n.type = "concept"), max_concepts)
page_claims(page_nodes) ==
    take(SelectSeq(page_nodes, LAMBDA n : n.type = "claim"), MaxBundleClaims)

\* the test of line 88 dropped: a prerequisite is compared with the listed
\* concepts only
add_prerequisite_unchecked(concepts, prerequisites, prereq, max_prereqs) ==
    IF Len(prerequisites) >= max_prereqs THEN prerequisites
    ELSE IF \E i \in DOMAIN concepts :
                lower(concepts[i].name) = lower(prereq.label)
         THEN prerequisites
    ELSE Append(prerequisites,
                [name |-> prereq.label,
                 definition |-> data_get(prereq.data, "definition", "")])

\* the body of "for prereq in prereqs": nothing is appended once
\* max_prereqs entries are listed, nor a label that a listed concept or
\* prerequisite has, letter case ignored
add_prerequisite(concepts, prerequisites, prereq, max_prereqs) ==
    IF Len(prerequisites) >= max_prereqs THEN prerequisites
    ELSE IF \E i \in DOMAIN concepts :
                lower(concepts[i].name) = lower(prereq.label)
         THEN prerequisites
    ELSE IF \E i \in DOMAIN prerequisites :
                lower(prerequisites[i].name) = lower(prereq.label)
         THEN prerequisites
    ELSE Append(prerequisites,
                [name |-> prereq.label,
                 definition |-> data_get(prereq.data, "definition", "")])

\* step 2 over the first n prerequisites met; listed is the list after the
\* first n - 1
RECURSIVE add_prerequisites(_, _, _, _)
add_prerequisites(concepts, prereqs, n, max_prereqs) ==
    IF n = 0 THEN <<>>
    ELSE CHOOSE out \in
            {add_prerequisite(concepts, listed, prereqs[n], max_prereqs) :
                listed \in {add_prerequisites(concepts, prereqs, n - 1,
                                              max_prereqs)}} : TRUE

\* concept_ids[:7], prerequisites being looked up for more concepts than 5
lookups_unbounded(concept_ids) == take(concept_ids, 7)

\* concept_ids[:5]
lookups(concept_ids) == take(concept_ids, MaxPrereqLookups)

\* step 3: one entry for every confused_at edge of every row of the history
confusion_entries(N, E, confusion) ==
    concat([i \in DOMAIN confusion |->
        LET signal == confusion[i]
            es == SelectSeq(get_edges_from(E, signal.id, "confused_at"),
                            LAMBDA e : e.target_id \in Ids(N))
        IN  [j \in DOMAIN es |->
                [concept |-> get_node(N, es[j].target_id).label,
                 page |-> data_get(signal.data, "page", "?"),
                 state |-> data_get(signal.data, "state", "stuck")]]])

\* the bundle and the concept ids whose prerequisites were looked up
get_context_bundle(N, E, doc_id, page, passage, max_concepts, max_prereqs) ==
    IF doc_id = ""
    THEN [bundle |-> ContextBundle(passage, <<>>, <<>>, <<>>, <<>>),
          looked_up |-> <<>>]
    ELSE
    LET page_nodes == get_concepts_for_page(N, E, doc_id, page)
        listed == page_concepts(page_nodes, max_concepts)
        concepts == [i \in DOMAIN listed |->
                        [name |-> listed[i].label,
                         definition |->
                            data_get(listed[i].data, "definition", "")]]
        concept_ids == [i \in DOMAIN listed |-> listed[i].id]
        stated == page_claims(page_nodes)
        claims == [i \in DOMAIN stated |->
                        [statement |->
                            data_get(stated[i].data, "statement",
                                     stated[i].label)]]
        looked_up == lookups(concept_ids)
        prereqs == concat([i \in DOMAIN looked_up |->
                        get_prerequisites(N, E, looked_up[i], PrereqDepth)])
        confusion == get_confusion_history(N, E, doc_id, concept_ids,
                                           ConfusionLimit)
    IN  [bundle |->
            ContextBundle(passage, concepts,
                add_prerequisites(concepts, prereqs, Len(prereqs), max_prereqs),
                claims, confusion_entries(N, E, confusion)),
         looked_up |-> looked_up]

----------------------------------------------------------------------------
(* extractor.py: the prompt, the model's answer and _parse_json *)

\* if len(text.strip()) < 50: the page is skipped
MinPageChars == 50
\* data.text_preview = text[:200]
PreviewChars == 200
\* a claim's label = statement[:80]
LabelChars == 80
\* confidence=0.8 of an extracted concept or claim
ExtractedConfidence == 16

\* the replacement fields of EXTRACT_PROMPT had its JSON braces been doubled
EXTRACT_PROMPT_escaped == <<"text">>

\* the replacement fields str.format finds in EXTRACT_PROMPT: the braces of
\* the JSON example open fields named after the text that follows them
EXTRACT_PROMPT == <<"\n  \"concepts\"", "\"concepts\"", "text">>

\* the replacement fields str.format finds in RELATE_PROMPT
RELATE_PROMPT == <<"concept_list", "\n  \"relationships\"", "\"relationships\"">>

\* a format that fills every template
str_format_ok(template, kwargs) == [raised |-> ""]

\* str.format(**kwargs): KeyError at the first field that is no keyword
str_format(template, kwargs) ==
    IF \E i \in DOMAIN template : template[i] \notin kwargs
    THEN [raised |-> "KeyError"]
    ELSE [raised |-> ""]

\* str.strip() on a sequence of characters
RECURSIVE lstrip(_)
lstrip(s) == IF s # <<>> /\ Head(s) = " " THEN lstrip(Tail(s)) ELSE s
RECURSIVE rstrip(_)
rstrip(s) ==
    IF s # <<>> /\ s[Len(s)] = " " THEN rstrip(SubSeq(s, 1, Len(s) - 1)) ELSE s
strip(s) == lstrip(rstrip(s))

\* JSON values the model's text can hold
JGarbage == [t |-> "garbage"]
JNull == [t |-> "null"]
JArray == [t |-> "array"]
JObject(members, concepts, claims) ==
    [t |-> "object", members |-> members, concepts |-> concepts,
     claims |-> claims]

\* the text of a response: a JSON body, bare ("plain"), between markdown
\* fence lines ("fenced") or with prose before and after it ("prose")
Text(wrap, body) == [kind |-> "text", wrap |-> wrap, body |-> body]
\* generate() raised
Unreachable == [kind |-> "error"]

\* _parse_json: fence lines are dropped and json.loads tried; on failure the
\* text from the first { to the last } is tried; None when both fail
parse_json(text) ==
    IF text.body.t = "garbage" THEN JNull
    ELSE IF text.wrap = "prose" /\ text.body.t # "object" THEN JNull
    ELSE text.body

\* Python truth of a parsed value: None and {} are false
truthy(json) ==
    /\ json.t # "null"
    /\ json.t = "object" => json.members # {}

----------------------------------------------------------------------------
(* extractor.py: extract_from_page *)

\* a result that counts one edge more than it is given
ResultOneOver(c, cl, e) ==
    [concepts_added |-> c, claims_added |-> cl, edges_added |-> e + 1]
Result(c, cl, e) == [concepts_added |-> c, claims_added |-> cl, edges_added |-> e]

\* time.time(): later than the created_at of every row written so far
RECURSIVE max_created_at(_)
max_created_at(N) ==
    IF N = <<>> THEN 0 ELSE Max(Head(N).created_at, max_created_at(Tail(N)))
now(N) == max_created_at(N) + 1

\* an unused uuid4
IdPool ==
    {"u01", "u02", "u03", "u04", "u05", "u06", "u07", "u08", "u09", "u10",
     "u11", "u12", "u13", "u14", "u15", "u16", "u17", "u18", "u19", "u20"}
make_id(used) == CHOOSE u \in IdPool : u \notin used
\* an id generator that hands out the same id again
stale_id(N, E) == make_id({})
fresh_id(N, E) == make_id(Ids(N) \cup Ids(E))

\* concept_map[key] = value
put(map, key, value) ==
    [k \in DOMAIN map \cup {key} |-> IF k = key THEN value ELSE map[k]]

\* the state of one extract_from_page call: the tables, concept_map, the
\* counts and the exception that is propagating ("" for none)
Extraction(N, E, map, result, raised) ==
    [N |-> N, E |-> E, map |-> map, result |-> result, raised |-> raised]

\* self.graph.add_edge(Edge(id=make_id(), ...)); result.edges_added += 1
link(X, source_id, target_id, rel_type) ==
    LET r == add_edge(X.N, X.E,
                Edge(fresh_id(X.N, X.E), source_id, target_id, rel_type, WeightOne))
    IN  IF r.raised
        THEN [X EXCEPT !.raised = "IntegrityError"]
        ELSE [X EXCEPT !.E = r.edges,
                       !.result.edges_added = @ + 1]

\* the body of "for c in parsed.get('concepts', [])"
store_concept(X, chunk_id, doc_id, c) ==
    IF X.raised # "" THEN X
    ELSE IF ~c.is_object \/ ~c.name_is_str
         THEN [X EXCEPT !.raised = "AttributeError"]
    ELSE LET name == strip(c.name)
             existing == find_nodes(X.N, "concept", doc_id, name, 1)
             reuse == existing # <<>> /\ lower(existing[1].label) = lower(name)
             concept_id == IF reuse THEN existing[1].id ELSE fresh_id(X.N, X.E)
             N2 == IF reuse THEN X.N
                   ELSE add_node(X.N,
                            Node(concept_id, "concept", name,
                                 [definition |-> <<>>,
                                  prerequisites |-> c.prerequisites],
                                 doc_id, ExtractedConfidence, now(X.N)))
             X2 == [X EXCEPT !.N = N2,
                             !.result.concepts_added =
                                    IF reuse THEN @ ELSE @ + 1,
                             !.map = put(@, lower(name), concept_id)]
         IN  IF name = <<>> THEN X
             ELSE link(X2, chunk_id, concept_id, "mentions")

RECURSIVE store_concepts(_, _, _, _)
store_concepts(X, chunk_id, doc_id, cs) ==
    IF cs = <<>> THEN X
    ELSE store_concepts(store_concept(X, chunk_id, doc_id, Head(cs)),
                        chunk_id, doc_id, Tail(cs))

\* "for concept_name in cl.get('supports', [])": a supports edge to every
\* named concept of concept_map
RECURSIVE link_supports(_, _, _)
link_supports(X, claim_id, names) ==
    IF names = <<>> \/ X.raised # "" THEN X
    ELSE LET key == lower(Head(names))
         IN  link_supports(
                IF key \in DOMAIN X.map
                THEN link(X, claim_id, X.map[key], "supports") ELSE X,
                claim_id, Tail(names))

\* the body of "for cl in parsed.get('claims', [])"
store_claim(X, chunk_id, doc_id, cl) ==
    IF X.raised # "" THEN X
    ELSE IF ~cl.is_object \/ ~cl.statement_is_str
         THEN [X EXCEPT !.raised = "AttributeError"]
    ELSE LET statement == strip(cl.statement)
             claim_id == fresh_id(X.N, X.E)
             X2 == [X EXCEPT
                     !.N = add_node(@,
                            Node(claim_id, "claim",
                                 SubSeq(statement, 1,
                                        Min(Len(statement), LabelChars)),
                                 [statement |-> statement],
                                 doc_id, ExtractedConfidence, now(X.N))),
                     !.result.claims_added = @ + 1]
         IN  IF statement = <<>> THEN X
             ELSE link_supports(link(X2, chunk_id, claim_id, "mentions"),
                                claim_id, cl.supports)

RECURSIVE store_claims(_, _, _, _)
store_claims(X, chunk_id, doc_id, cls) ==
    IF cls = <<>> THEN X
    ELSE store_claims(store_claim(X, chunk_id, doc_id, Head(cls)),
                      chunk_id, doc_id, Tail(cls))

\* "for prereq_name in c.get('prerequisites', [])": a depends_on edge to
\* every named concept of concept_map other than the concept itself
RECURSIVE link_prerequisites(_, _, _)
link_prerequisites(X, source_id, names) ==
    IF names = <<>> \/ X.raised # "" THEN X
    ELSE LET key == lower(Head(names))
         IN  link_prerequisites(
                IF key \in DOMAIN X.map /\ X.map[key] # source_id
                THEN link(X, source_id, X.map[key], "depends_on") ELSE X,
                source_id, Tail(names))

\* the second "for c in parsed.get('concepts', [])"
RECURSIVE store_prerequisites(_, _)
store_prerequisites(X, cs) ==
    IF cs = <<>> \/ X.raised # "" THEN X
    ELSE LET key == lower(strip(Head(cs).name))
         IN  store_prerequisites(
                IF key \in DOMAIN X.map
                THEN link_prerequisites(X, X.map[key], Head(cs).prerequisites)
                ELSE X,
                Tail(cs))

\* what extract_from_page leaves and returns: the tables, the result, the
\* exception that escaped it ("" for none) and the number of generate() calls
Extracted(N, E, result, raised, generated) ==
    [N |-> N, E |-> E, result |-> result, raised |-> raised,
     generated |-> generated]

\* str(page) of a one-digit page number
str(n) == <<"0", "1", "2", "3", "4", "5", "6", "7", "8", "9">>[n + 1]
\* f"Page {page}"
page_label(page) == <<"P", "a", "g", "e", " ", str(page)>>

\* a page is skipped only when it is blank
blank(text) == text.stripped = 0

\* if not text.strip() or len(text.strip()) < 50
too_short(text) == text.stripped = 0 \/ text.stripped < MinPageChars

\* text is [len, stripped]: the lengths of the text and of text.strip();
\* response is the answer generate() gives when it is called
extract_from_page(N, E, doc_id, page, text, response) ==
    IF too_short(text)
    THEN Extracted(N, E, Result(0, 0, 0), "", 0)
    ELSE
    LET chunk_id == fresh_id(N, E)
        N1 == add_node(N,
                Node(chunk_id, "page_chunk", page_label(page),
                     [page |-> page,
                      text_preview |-> Min(text.len, PreviewChars)],
                     doc_id, ConfOne, now(N)))
        prompt == str_format(EXTRACT_PROMPT, {"text"})
        \* try: format, generate, _parse_json; except Exception: return result
        caught == prompt.raised # "" \/ response.kind = "error"
        generated == IF prompt.raised # "" THEN 0 ELSE 1
        parsed == parse_json(response)
    IN  IF caught \/ ~truthy(parsed)
        THEN Extracted(N1, E, Result(0, 0, 0), "", generated)
        ELSE IF parsed.t # "object"
        \* parsed.get on a list, a number or a string
        THEN Extracted(N1, E, Result(0, 0, 0), "AttributeError", generated)
        ELSE
        LET X0 == Extraction(N1, E, [k \in {} |-> ""], Result(0, 0, 0), "")
            X1 == store_concepts(X0, chunk_id, doc_id, parsed.concepts)
            X2 == store_claims(X1, chunk_id, doc_id, parsed.claims)
            X3 == store_prerequisites(X2, parsed.concepts)
        IN  Extracted(X3.N, X3.E, X3.result, X3.raised, generated)

----------------------------------------------------------------------------
(* extractor.py: _infer_cross_relationships and extract_from_document *)

\* find_nodes(..., limit=50) of the cross-page pass
RelateLimit == 50

\* an answer of the cross-page pass: {"relationships": [...]}
JRelations(rels) ==
    [t |-> "object", members |-> {"relationships"}, concepts |-> <<>>,
     claims |-> <<>>, relationships |-> rels]

\* parsed.get("relationships", [])
relationships_of(parsed) ==
    IF "relationships" \in parsed.members THEN parsed.relationships ELSE <<>>

\* {c.label.lower(): c.id for c in concepts}: a later row replaces an
\* earlier one of the same key
RECURSIVE label_map(_)
label_map(concepts) ==
    IF concepts = <<>> THEN [k \in {} |-> ""]
    ELSE LET c == concepts[Len(concepts)]
             rest == label_map(SubSeq(concepts, 1, Len(concepts) - 1))
         IN  [k \in DOMAIN rest \cup {lower(c.label)} |->
                IF k = lower(c.label) THEN c.id ELSE rest[k]]

\* the body of "for rel in parsed.get('relationships', [])"
store_relationship(X, rel) ==
    IF X.raised # "" THEN X
    ELSE IF ~rel.is_object THEN [X EXCEPT !.raised = "AttributeError"]
    ELSE LET source_name == lower(rel.source)
             target_name == lower(rel.target)
         IN  IF /\ rel.relation \in {"depends_on", "explains"}
                /\ source_name \in DOMAIN X.map
                /\ target_name \in DOMAIN X.map
                /\ X.map[source_name] # X.map[target_name]
             THEN link(X, X.map[source_name], X.map[target_name], rel.relation)
             ELSE X

RECURSIVE store_relationships(_, _)
store_relationships(X, rels) ==
    IF rels = <<>> THEN X
    ELSE store_relationships(store_relationship(X, Head(rels)), Tail(rels))

\* what _infer_cross_relationships leaves and returns: the edges table, the
\* number of edges added, the exception that escaped and the generate() calls
Inferred(E, edges_added, raised, generated) ==
    [E |-> E, edges_added |-> edges_added, raised |-> raised,
     generated |-> generated]

\* the pass without the test of the number of concepts, its prompt built
\* whatever the template holds
infer_cross_relationships_unguarded(N, E, doc_id, response) ==
    LET concepts == find_nodes(N, "concept", doc_id, <<>>, RelateLimit)
        parsed == parse_json(response)
    IN  IF response.kind = "error" \/ ~truthy(parsed) THEN Inferred(E, 0, "", 1)
        ELSE IF parsed.t # "object" THEN Inferred(E, 0, "AttributeError", 1)
        ELSE
        LET X == store_relationships(
                    Extraction(N, E, label_map(concepts), Result(0, 0, 0), ""),
                    relationships_of(parsed))
        IN  Inferred(X.E, X.result.edges_added, X.raised, 1)

\* async def _infer_cross_relationships(self, doc_id)
infer_cross_relationships(N, E, doc_id, response) ==
    LET concepts == find_nodes(N, "concept", doc_id, <<>>, RelateLimit)
        prompt == str_format(RELATE_PROMPT, {"concept_list"})
        caught == prompt.raised # "" \/ response.kind = "error"
        generated == IF prompt.raised # "" THEN 0 ELSE 1
        parsed == parse_json(response)
    IN  IF Len(concepts) < 2 THEN Inferred(E, 0, "", 0)
        ELSE IF caught \/ ~truthy(parsed) THEN Inferred(E, 0, "", generated)
        ELSE IF parsed.t # "object"
        THEN Inferred(E, 0, "AttributeError", generated)
        ELSE
        LET X == store_relationships(
                    Extraction(N, E, label_map(concepts), Result(0, 0, 0), ""),
                    relationships_of(parsed))
        IN  Inferred(X.E, X.result.edges_added, X.raised, generated)

\* f"Document {doc_id[:8]}" of an id of at most 8 characters
document_label(doc_id) ==
    <<"D", "o", "c", "u", "m", "e", "n", "t", " ", doc_id>>

\* get_doc_stats: the concepts, claims and chunks of a document and the
\* edges whose source is a node of the document
get_doc_stats(N, E, doc_id) ==
    LET of_type(type) ==
            Len(SelectSeq(N, LAMBDA n : n.doc_id = doc_id /\ n.type = type))
    IN  [concepts |-> of_type("concept"),
         claims |-> of_type("claim"),
         chunks |-> of_type("page_chunk"),
         edges |-> Len(SelectSeq(E, LAMBDA e :
                        \E n \in Range(N) :
                            n.id = e.source_id /\ n.doc_id = doc_id))]

\* the state of one extract_from_document call: the tables, the total, the
\* exception that is propagating, the generate() calls issued and the page
\* numbers whose extract_from_page call has returned
Extracting(N, E, total, raised, generated, extracted) ==
    [N |-> N, E |-> E, total |-> total, raised |-> raised,
     generated |-> generated, extracted |-> extracted]

\* total.x += result.x after a page's extract_from_page call r; an
\* exception of the call propagates
add_page(D, page, r) ==
    IF r.raised # ""
    THEN Extracting(r.N, r.E, D.total, r.raised, D.generated + r.generated,
                    D.extracted)
    ELSE Extracting(r.N, r.E,
            Result(D.total.concepts_added + r.result.concepts_added,
                   D.total.claims_added + r.result.claims_added,
                   D.total.edges_added + r.result.edges_added),
            "", D.generated + r.generated, Append(D.extracted, page))

\* "for p in pages": responses[i] is the model's answer for pages[i]; r is
\* the outcome of the page's extract_from_page call
RECURSIVE extract_pages(_, _, _, _)
extract_pages(D, doc_id, pages, responses) ==
    IF pages = <<>> \/ D.raised # "" THEN D
    ELSE LET p == Head(pages)
         IN  CHOOSE out \in
                {extract_pages(add_page(D, p.page, r), doc_id,
                               Tail(pages), Tail(responses)) :
                    r \in {extract_from_page(D.N, D.E, doc_id, p.page, p.text,
                                             Head(responses))}} : TRUE

\* what extract_from_document leaves and returns; cross_ran tells whether
\* _infer_cross_relationships was called and returned
extract_from_document(N, E, doc_id, pages, responses, cross_response) ==
    LET \* the outcome once the pages have left D and the cross-page pass,
        \* which is not reached when a page raised, would leave cross
        left(D, cross) ==
            IF D.raised # ""
            THEN [N |-> D.N, E |-> D.E, total |-> D.total,
                  raised |-> D.raised, generated |-> D.generated,
                  extracted |-> D.extracted, cross_ran |-> FALSE]
            ELSE [N |-> D.N, E |-> cross.E,
                  total |-> [D.total EXCEPT
                                !.edges_added = @ + cross.edges_added],
                  raised |-> cross.raised,
                  generated |-> D.generated + cross.generated,
                  extracted |-> D.extracted,
                  cross_ran |-> cross.raised = ""]
        \* the tables with the document node
        documented ==
            {add_node(N, Node(doc_id, "document", document_label(doc_id),
                              NoData, doc_id, ConfOne, now(N)))}
        paged ==
            {extract_pages(Extracting(N0, E, Result(0, 0, 0), "", 0, <<>>),
                           doc_id, pages, responses) : N0 \in documented}
    IN  CHOOSE out \in
            UNION {{left(D, cross) :
                        cross \in {infer_cross_relationships(
                                        D.N, D.E, doc_id, cross_response)}} :
                    D \in paged} : TRUE

----------------------------------------------------------------------------
(* The store under arbitrary calls of its CRUD operations *)

NodeIds == {"n1", "n2"}
EdgeIds == {"e1", "e2"}
StoreLabels == {<<"a">>, <<"A", "b">>}
StoreConfidences == {10, 20}
StoreConfidenceDeltas == {-30, -10, 10}
StoreWeightDeltas == {-30, 5}

StoreNodeInputs ==
    {Node(id, "concept", label, NoData, "d1", c, 1) :
        id \in NodeIds, label \in StoreLabels, c \in StoreConfidences}

StoreEdgeInputs ==
    {Edge(id, s, t, "depends_on", WeightOne) :
        id \in EdgeIds, s \in NodeIds, t \in NodeIds}

\* the record of a call: its operation and arguments, whether it raised, and
\* the number of rows its statements deleted, inserted or updated (an INSERT
\* OR REPLACE over an existing row deletes one row and inserts one)
Call(op, id, delta, row, raised, changes) ==
    [op |-> op, id |-> id, delta |-> delta, row |-> row,
     raised |-> raised, changes |-> changes]

Count(table, Test(_)) == Len(SelectSeq(table, Test))

StoreInit ==
    /\ nodes = <<>>
    /\ edges = <<>>
    /\ last = Call("init", "", 0, None, FALSE, 0)
    /\ ret = <<>>

AddNode(node) ==
    /\ nodes' = add_node(nodes, node)
    /\ last' = Call("add_node", node.id, 0, node, FALSE,
                    1 + Count(nodes, LAMBDA r : r.id = node.id))
    /\ ret' = <<node>>
    /\ UNCHANGED edges

DeleteNode(id) ==
    LET r == delete_node(nodes, edges, id)
    IN  /\ nodes' = r.nodes
        /\ edges' = r.edges
        /\ last' = Call("delete_node", id, 0, None, r.raised,
                        (Len(nodes) - Len(r.nodes)) + (Len(edges) - Len(r.edges)))
        /\ ret' = <<>>

UpdateNodeConfidence(id, delta) ==
    /\ nodes' = update_node_confidence(nodes, id, delta)
    /\ last' = Call("update_node_confidence", id, delta, None, FALSE,
                    Count(nodes, LAMBDA r : r.id = id))
    /\ ret' = <<>>
    /\ UNCHANGED edges

AddEdge(edge) ==
    LET r == add_edge(nodes, edges, edge)
    IN  /\ edges' = r.edges
        /\ last' = Call("add_edge", edge.id, 0, edge, r.raised,
                        IF r.raised THEN 0
                        ELSE 1 + Count(edges, LAMBDA e : e.id = edge.id))
        /\ ret' = IF r.raised THEN <<>> ELSE <<edge>>
        /\ UNCHANGED nodes

DeleteEdge(id) ==
    /\ edges' = delete_edge(edges, id)
    /\ last' = Call("delete_edge", id, 0, None, FALSE,
                    Count(edges, LAMBDA e : e.id = id))
    /\ ret' = <<>>
    /\ UNCHANGED nodes

\* the guard keeps the weights of the model finite
UpdateEdgeWeight(id, delta) ==
    /\ \A e \in Range(edges) : e.id = id => e.weight + delta <= MaxWeight
    /\ edges' = update_edge_weight(edges, id, delta)
    /\ last' = Call("update_edge_weight", id, delta, None, FALSE,
                    Count(edges, LAMBDA e : e.id = id))
    /\ ret' = <<>>
    /\ UNCHANGED nodes

StoreNext ==
    \/ \E node \in StoreNodeInputs : AddNode(node)
    \/ \E id \in NodeIds : DeleteNode(id)
    \/ \E id \in NodeIds, delta \in StoreConfidenceDeltas :
            UpdateNodeConfidence(id, delta)
    \/ \E edge \in StoreEdgeInputs : AddEdge(edge)
    \/ \E id \in EdgeIds : DeleteEdge(id)
    \/ \E id \in EdgeIds, delta \in StoreWeightDeltas :
            UpdateEdgeWeight(id, delta)

SpecStore == StoreInit /\ [][StoreNext]_vars

Spec == SpecStore

----------------------------------------------------------------------------
(* Claims about the store's CRUD operations, checked under SpecStore *)

\* what clamp(x, 0, 1) is, stated apart from the store's code
Clamp01(x) == IF x < 0 THEN 0 ELSE IF x > ConfOne THEN ConfOne ELSE x

RowOf(table, id) == CHOOSE r \in Range(table) : r.id = id

\* C1: UpdateNodeConfidence(id, delta) on an existing node sets its
\* confidence to clamp(old + delta, 0, 1), whatever the sign and size of
\* delta, so the updated node has 0 <= confidence <= 1; it changes nothing
\* else, and nothing at all when the node is absent.
C1_ConfidenceClamped ==
    [][last'.op = "update_node_confidence" =>
        /\ DOMAIN nodes' = DOMAIN nodes
        /\ \A i \in DOMAIN nodes :
            IF nodes[i].id = last'.id
            THEN /\ nodes'[i].confidence = Clamp01(nodes[i].confidence + last'.delta)
                 /\ nodes'[i].confidence >= 0
                 /\ nodes'[i].confidence <= ConfOne
                 /\ nodes'[i] = [nodes[i] EXCEPT !.confidence = nodes'[i].confidence]
            ELSE nodes'[i] = nodes[i]
        /\ edges' = edges]_vars

\* an update with a positive delta has left an existing node at exactly 1.0
C1_Witness ==
    /\ last.op = "update_node_confidence"
    /\ last.delta > 0
    /\ last.changes = 1
    /\ RowOf(nodes, last.id).confidence = ConfOne

\* C2: AddNode is an upsert by id: the table never holds two rows of one id;
\* after AddNode(node) the row of node.id is node; re-adding an existing id
\* leaves the number of rows FindNodes returns and every edge unchanged, and
\* adding a new id adds one row.
C2_AddNodeUpsert ==
    [][last'.op = "add_node" =>
        LET node == last'.row
            all(N) == find_nodes(N, NULL, NULL, <<>>, Len(N))
        IN  /\ Cardinality(Ids(nodes')) = Len(nodes')
            /\ get_node(nodes', node.id) = node
            /\ \A id \in Ids(nodes) \ {node.id} :
                    get_node(nodes', id) = get_node(nodes, id)
            /\ Ids(nodes') = Ids(nodes) \cup {node.id}
            /\ Len(all(nodes')) =
                    IF node.id \in Ids(nodes) THEN Len(all(nodes))
                    ELSE Len(all(nodes)) + 1
            /\ edges' = edges]_vars

\* a node that edges refer to has just been re-added with other fields
C2_Witness ==
    /\ last.op = "add_node"
    /\ last.changes = 2
    /\ \E e \in Range(edges) : e.source_id = last.id \/ e.target_id = last.id
    /\ Len(nodes) = 2

\* C3: DeleteNode(id) removes the node and every edge that has id as source
\* or target, and leaves every other node and edge as it was.
C3_DeleteNodeRemovesEdges ==
    [][last'.op = "delete_node" =>
        LET id == last'.id
        IN  /\ ~last'.raised
            /\ get_node(nodes', id) = None
            /\ get_edges_from(edges', id, NULL) = <<>>
            /\ get_edges_to(edges', id, NULL) = <<>>
            /\ \A n \in NodeIds :
                    \A e \in Range(get_edges_from(edges', n, NULL))
                             \cup Range(get_edges_to(edges', n, NULL)) :
                        e.source_id # id /\ e.target_id # id
            /\ nodes' = SelectSeq(nodes, LAMBDA r : r.id # id)
            /\ edges' = SelectSeq(edges,
                            LAMBDA e : e.source_id # id /\ e.target_id # id)]_vars

\* a node was deleted together with an edge, and another edge is still there
C3_Witness ==
    /\ last.op = "delete_node"
    /\ last.changes >= 2
    /\ last.id \notin Ids(nodes)
    /\ edges # <<>>

\* C4: UpdateEdgeWeight(id, delta) on an existing edge sets its weight to
\* max(0, old + delta): never below 0 and with no upper clamp.
C4_WeightClampedBelow ==
    [][last'.op = "update_edge_weight" =>
        /\ DOMAIN edges' = DOMAIN edges
        /\ \A i \in DOMAIN edges :
            IF edges[i].id = last'.id
            THEN LET sum == edges[i].weight + last'.delta
                 IN  /\ edges'[i].weight = (IF sum < 0 THEN 0 ELSE sum)
                     /\ edges'[i].weight >= 0
                     /\ edges'[i] = [edges[i] EXCEPT !.weight = edges'[i].weight]
            ELSE edges'[i] = edges[i]
        /\ nodes' = nodes]_vars

\* a weight update has raised an edge above 1.0
C4_Witness ==
    /\ last.op = "update_edge_weight"
    /\ last.delta > 0
    /\ last.changes = 1
    /\ RowOf(edges, last.id).weight > WeightOne

\* the tables after the call c is issued once more on tables N, E
Retry(c, N, E) ==
    CASE c.op = "add_node" -> <<add_node(N, c.row), E>>
      [] c.op = "delete_node" ->
            <<delete_node(N, E, c.id).nodes, delete_node(N, E, c.id).edges>>
      [] c.op = "update_node_confidence" ->
            <<update_node_confidence(N, c.id, c.delta), E>>
      [] c.op = "add_edge" -> <<N, add_edge(N, E, c.row).edges>>
      [] c.op = "delete_edge" -> <<N, delete_edge(E, c.id)>>
      [] c.op = "update_edge_weight" ->
            <<N, update_edge_weight(E, c.id, c.delta)>>
      [] OTHER -> <<N, E>>

\* C5 as stated: every mutation is idempotent under retry, the same call
\* issued again leaves the store as the first call left it.
C5_AllIdempotent ==
    [][Retry(last', nodes', edges') = <<nodes', edges'>>]_vars

\* C5 amended: AddNode, AddEdge, DeleteNode and DeleteEdge are idempotent
\* under retry; a retried UpdateNodeConfidence or UpdateEdgeWeight applies its
\* delta once more, so the store is the same only if the clamp absorbs it.
C5_IdempotentExceptDeltas ==
    [][/\ last'.op \in {"add_node", "add_edge", "delete_node", "delete_edge"}
            => Retry(last', nodes', edges') = <<nodes', edges'>>
       /\ last'.op = "update_node_confidence"
            => \A i \in DOMAIN nodes' :
                 nodes'[i].id = last'.id =>
                   Retry(last', nodes', edges')[1][i].confidence
                     = Clamp01(nodes'[i].confidence + last'.delta)
       /\ last'.op = "update_edge_weight"
            => \A i \in DOMAIN edges' :
                 edges'[i].id = last'.id =>
                   Retry(last', nodes', edges')[2][i].weight
                     = (IF edges'[i].weight + last'.delta < 0 THEN 0
                        ELSE edges'[i].weight + last'.delta)]_vars

\* an edge was upserted over an older row of the same id
C5_Witness ==
    /\ last.op = "add_edge"
    /\ last.changes = 2
    /\ Len(edges) = 2
    /\ edges[2] = last.row

\* C6 as stated: AddEdge succeeds and stores the edge whether or not its
\* source_id and target_id name existing nodes.
C6_AddEdgeNeverValidates ==
    [][last'.op = "add_edge" =>
        ~last'.raised /\ get_edges_from(edges', last'.row.source_id, NULL) # <<>>]_vars

\* C6 amended: the store enforces the foreign keys of the edges table.
\* AddEdge raises and stores nothing when source_id or target_id names no
\* existing node; when both exist it upserts the edge by its id.
C6_AddEdgeValidatesEndpoints ==
    [][last'.op = "add_edge" =>
        LET edge == last'.row
        IN  IF {edge.source_id, edge.target_id} \subseteq Ids(nodes)
            THEN /\ ~last'.raised
                 /\ Cardinality(Ids(edges')) = Len(edges')
                 /\ RowOf(edges', edge.id) = edge
                 /\ \A id \in Ids(edges) \ {edge.id} :
                        RowOf(edges', id) = RowOf(edges, id)
                 /\ Ids(edges') = Ids(edges) \cup {edge.id}
            ELSE last'.raised /\ edges' = edges]_vars

\* an AddEdge naming an absent endpoint was refused while a node exists
C6_Witness ==
    /\ last.op = "add_edge"
    /\ last.raised
    /\ nodes # <<>>
    /\ last.row.source_id \in Ids(nodes)

----------------------------------------------------------------------------
(* get_prerequisites over the graphs that AddEdge builds on three concepts *)

\* the number of edges of the explored prerequisite graphs
MaxPrereqEdges == 3

ConceptIds == {"c1", "c2", "c3"}
PrereqRelTypes == {"depends_on", "explains"}
PrereqDepths == {1, 2, 3}

ConceptNode(id) == Node(id, "concept", <<id>>, NoData, "d1", ConfOne, 1)

PrereqInit ==
    /\ nodes = <<ConceptNode("c1"), ConceptNode("c2"), ConceptNode("c3")>>
    /\ edges = <<>>
    /\ last = Call("init", "", 0, None, FALSE, 0)
    /\ ret = <<>>

\* add_edge(Edge(id=make_id(), ...)) between two concepts
LinkConcepts(s, t, rel_type) ==
    /\ Len(edges) < MaxPrereqEdges
    /\ AddEdge(Edge(make_id(Ids(edges)), s, t, rel_type, WeightOne))

GetPrerequisites(concept_id, depth) ==
    /\ ret' = get_prerequisites(nodes, edges, concept_id, depth)
    /\ last' = Call("get_prerequisites", concept_id, depth, None, FALSE, 0)
    /\ UNCHANGED <<nodes, edges>>

PrereqNext ==
    \/ \E s \in ConceptIds, t \in ConceptIds, rel_type \in PrereqRelTypes :
            LinkConcepts(s, t, rel_type)
    \/ \E depth \in PrereqDepths : GetPrerequisites("c1", depth)

SpecPrereq == PrereqInit /\ [][PrereqNext]_vars

\* the targets of the depends_on edges that leave a node of S
DependsOnStep(S) ==
    {e.target_id : e \in {x \in Range(edges) :
                            x.rel_type = "depends_on" /\ x.source_id \in S}}

\* the nodes at the end of a path of k depends_on edges from c, k >= 1
RECURSIVE AtHops(_, _)
AtHops(c, k) == IF k = 1 THEN DependsOnStep({c}) ELSE DependsOnStep(AtHops(c, k - 1))

\* the nodes reachable from c by between 1 and depth depends_on edges
RECURSIVE WithinHops(_, _)
WithinHops(c, depth) ==
    IF depth = 0 THEN {} ELSE AtHops(c, depth) \cup WithinHops(c, depth - 1)

\* C7: GetPrerequisites(c, depth) returns, as a set, exactly the existing
\* nodes reachable from c by between 1 and depth depends_on edges, other
\* edge types ignored, and never the origin c, cycles and self-loops included.
C7_PrerequisitesAreReachableSet ==
    last.op = "get_prerequisites" =>
        /\ Range(ret) \subseteq Range(nodes)
        /\ {r.id : r \in Range(ret)} =
                (WithinHops(last.id, last.delta) \cap Ids(nodes)) \ {last.id}
        /\ \A r \in Range(ret) : r.id # last.id

\* a depth 2 query from an origin on a depends_on cycle, with an edge of
\* another type leading to a node that is no prerequisite
C7_Witness ==
    /\ last.op = "get_prerequisites"
    /\ last.delta = 2
    /\ \E e \in Range(edges) : e.rel_type = "depends_on" /\ e.target_id = last.id
                               /\ e.source_id # last.id
    /\ \E e \in Range(edges) : e.rel_type = "explains" /\ e.source_id = last.id
                               /\ e.target_id \notin {r.id : r \in Range(ret)}
                               /\ e.target_id # last.id
    /\ ret # <<>>

\* C8: the sequence GetPrerequisites returns holds no node id twice.
C8_PrerequisitesDistinct ==
    last.op = "get_prerequisites" =>
        Cardinality({r.id : r \in Range(ret)}) = Len(ret)

----------------------------------------------------------------------------
(* get_concepts_for_page over the edges that AddEdge lays between the page
   chunks, an annotation and the concepts, claims and signals of two
   documents *)

\* the number of edges of the explored page graphs
MaxPageEdges == 2

PageNodes ==
    << Node("p1", "page_chunk", <<"p">>, PageData(1), "d1", ConfOne, 1),
       Node("p2", "page_chunk", <<"p">>, PageData(2), "d1", ConfOne, 1),
       Node("q1", "page_chunk", <<"p">>, PageData(1), "d2", ConfOne, 1),
       Node("n1", "annotation", <<"n">>, PageData(1), "d1", ConfOne, 1),
       Node("a", "concept", <<"a">>, NoData, "d1", ConfOne, 1),
       Node("b", "concept", <<"b">>, NoData, "d2", ConfOne, 1),
       Node("k", "claim", <<"k">>, NoData, "d1", ConfOne, 1),
       Node("g", "signal", <<"g">>, PageData(1), "d1", ConfOne, 1) >>

PageSources == {"p1", "p2", "q1", "n1"}
PageTargets == {"a", "b", "k", "g"}
PageRelTypes == {"mentions", "confused_at"}
PageQueries == {<<"d1", 1>>, <<"d1", 2>>, <<"d2", 1>>}

PageInit ==
    /\ nodes = PageNodes
    /\ edges = <<>>
    /\ last = Call("init", "", 0, None, FALSE, 0)
    /\ ret = <<>>

\* add_edge(Edge(id=make_id(), source_id=..., target_id=..., rel_type=...))
LinkPage(s, t, rel_type) ==
    /\ Len(edges) < MaxPageEdges
    /\ AddEdge(Edge(make_id(Ids(edges)), s, t, rel_type, WeightOne))

GetConceptsForPage(doc_id, page) ==
    /\ ret' = get_concepts_for_page(nodes, edges, doc_id, page)
    /\ last' = Call("get_concepts_for_page", doc_id, page, None, FALSE, 0)
    /\ UNCHANGED <<nodes, edges>>

PageNext ==
    \/ \E s \in PageSources, t \in PageTargets, rel_type \in PageRelTypes :
            LinkPage(s, t, rel_type)
    \/ \E q \in PageQueries : GetConceptsForPage(q[1], q[2])

SpecPage == PageInit /\ [][PageNext]_vars

\* the nodes of type concept or claim that a mentions edge links to a
\* page_chunk node of document doc whose data.page is page
MentionedOnPage(doc, page) ==
    {c \in Range(nodes) :
        /\ c.type \in {"concept", "claim"}
        /\ \E e \in Range(edges), p \in Range(nodes) :
            /\ e.rel_type = "mentions"
            /\ e.target_id = c.id
            /\ e.source_id = p.id
            /\ p.type = "page_chunk"
            /\ p.doc_id = doc
            /\ "page" \in DOMAIN p.data
            /\ p.data.page = page}

\* C9: GetConceptsForPage(doc, page) returns exactly the nodes of type
\* concept or claim that are the target of a mentions edge whose source is a
\* page_chunk node with doc_id = doc and data.page = page; a node linked only
\* from another page, another document's chunk, a source of another type or
\* by another edge type, or of another type itself, is not returned.
C9_ConceptsForPageExact ==
    last.op = "get_concepts_for_page" =>
        Range(ret) = MentionedOnPage(last.id, last.delta)

\* the query returned a node of the page while a mentions edge from another
\* document's chunk, or from a source that is no chunk, was left out
C9_Witness ==
    /\ last.op = "get_concepts_for_page"
    /\ Len(ret) = 1
    /\ \E e \in Range(edges) :
        /\ e.rel_type = "mentions"
        /\ e.target_id \in {"a", "k"}
        /\ e.target_id # ret[1].id
        /\ e.source_id \in {"q1", "n1", "p2"}

----------------------------------------------------------------------------
(* extract_from_page under every answer of the model *)

MaxExtractNodes == 3

ExtractDocs == {"d1", "d2"}
ExtractPages == {1, 2}
\* a blank page, a page one character short of the threshold, a full page
ExtractTexts ==
    {[len |-> 3, stripped |-> 0], [len |-> 60, stripped |-> 49],
     [len |-> 50, stripped |-> 50]}

ConceptEntry(name, prerequisites) ==
    [is_object |-> TRUE, name_is_str |-> TRUE, name |-> name,
     prerequisites |-> prerequisites]
ClaimEntry(statement, supports) ==
    [is_object |-> TRUE, statement_is_str |-> TRUE, statement |-> statement,
     supports |-> supports]
\* "x" where an object is expected
StringEntry ==
    [is_object |-> FALSE, name_is_str |-> FALSE, name |-> <<>>,
     prerequisites |-> <<>>]
\* {"name": 5}
NumberNamed ==
    [is_object |-> TRUE, name_is_str |-> FALSE, name |-> <<>>,
     prerequisites |-> <<>>]

\* a well-formed answer: two concepts, the first depending on the second,
\* and a claim supporting the first
WellFormed ==
    JObject({"concepts", "claims"},
            <<ConceptEntry(<<"A", " ">>, <<<<"b">>>>),
              ConceptEntry(<<"b">>, <<>>)>>,
            <<ClaimEntry(<<"s">>, <<<<"a">>>>)>>)

ExtractResponses ==
    {Unreachable,
     Text("plain", JGarbage),
     Text("prose", JArray),
     Text("plain", JNull),
     Text("plain", JArray),
     Text("plain", JObject({}, <<>>, <<>>)),
     Text("plain", JObject({"concepts"}, <<StringEntry>>, <<>>)),
     Text("fenced", JObject({"concepts"},
                            <<ConceptEntry(<<"a">>, <<>>), NumberNamed>>, <<>>)),
     Text("plain", WellFormed),
     Text("prose", WellFormed)}

\* concepts a document holds before a page of it is extracted
ExtractConcepts ==
    {Node("k1", "concept", <<"a">>, NoData, "d1", ExtractedConfidence, 1),
     Node("k2", "concept", <<"b">>, NoData, "d1", ExtractedConfidence, 1)}

ExtractInit ==
    /\ nodes = <<>>
    /\ edges = <<>>
    /\ last = Call("init", NULL, 0, None, FALSE, 0)
    /\ ret = <<>>

\* await extractor.extract_from_page(doc_id, page, text), the model
\* answering response if it is asked
ExtractFromPage(doc_id, page, text, response) ==
    /\ Len(nodes) < MaxExtractNodes
    /\ LET r == extract_from_page(nodes, edges, doc_id, page, text, response)
       IN  /\ nodes' = r.N
           /\ edges' = r.E
           /\ ret' = IF r.raised = "" THEN <<r.result>> ELSE <<>>
           /\ last' = [op |-> "extract_from_page", id |-> doc_id,
                       delta |-> page, row |-> None,
                       raised |-> r.raised # "",
                       changes |-> (Len(r.N) - Len(nodes))
                                   + (Len(r.E) - Len(edges)),
                       text |-> text, response |-> response,
                       generated |-> r.generated]

ExtractNext ==
    \/ \E node \in ExtractConcepts : AddNode(node)
    \/ \E doc_id \in ExtractDocs, page \in ExtractPages,
          text \in ExtractTexts, response \in ExtractResponses :
            ExtractFromPage(doc_id, page, text, response)

SpecExtract == ExtractInit /\ [][ExtractNext]_vars

\* the answer is a failure of the model: the call failed, the text is no
\* JSON, or the JSON is not an object of lists of objects with string names
Malformed(response) ==
    \/ response.kind = "error"
    \/ /\ response.kind = "text"
       /\ LET parsed == parse_json(response)
          IN  \/ parsed.t # "object"
              \/ \E i \in DOMAIN parsed.concepts :
                    ~parsed.concepts[i].is_object
                    \/ ~parsed.concepts[i].name_is_str
              \/ \E i \in DOMAIN parsed.claims :
                    ~parsed.claims[i].is_object
                    \/ ~parsed.claims[i].statement_is_str

\* the concept and claim rows of the nodes table
Extracted_rows(N) ==
    {N[i] : i \in {j \in DOMAIN N : N[j].type \in {"concept", "claim"}}}

Namesakes(N, doc_id, name) ==
    {n \in Range(N) :
        n.type = "concept" /\ n.doc_id = doc_id /\ lower(n.label) = lower(name)}

\* C12: when extract_from_page receives from the model a concept name that
\* equals, ignoring case, the label of a concept node of the same document,
\* it creates no new concept node and uses that node's id: the page's chunk
\* gets a mentions edge to the existing node.
C12_ConceptReused ==
    [][(/\ last'.op = "extract_from_page"
        /\ last'.text.stripped >= MinPageChars
        /\ ~Malformed(last'.response))
       => LET parsed == parse_json(last'.response)
          IN  \A i \in DOMAIN parsed.concepts :
                LET name == strip(parsed.concepts[i].name)
                    known == Namesakes(nodes, last'.id, name)
                IN  known # {}
                    => /\ Namesakes(nodes', last'.id, name) = known
                       /\ \E n \in known :
                            \E e \in Range(edges') \ Range(edges) :
                                /\ e.rel_type = "mentions"
                                /\ e.target_id = n.id
                                /\ \E c \in Range(nodes') \ Range(nodes) :
                                      c.id = e.source_id
                                      /\ c.type = "page_chunk"]_vars

\* the rows of a type in a table of nodes
CountType(N, type) == Cardinality({i \in DOMAIN N : N[i].type = type})

\* the page_chunk rows of a page of a document
ChunksOf(N, doc_id, page) ==
    {i \in DOMAIN N :
        /\ N[i].type = "page_chunk"
        /\ N[i].doc_id = doc_id
        /\ json_extract(N[i].data, "page") = <<page>>}

\* C13: after any sequence of extract_from_page calls, repeated extraction of
\* a page included, the store holds at most one page_chunk node for each
\* (doc_id, page).
C13_OneChunkPerPage ==
    \A doc_id \in ExtractDocs, page \in ExtractPages :
        Cardinality(ChunksOf(nodes, doc_id, page)) <= 1

\* C14: extract_from_page with a text whose trimmed length is below 50 is a
\* no-op: it returns {0, 0, 0}, issues no model call and leaves both tables
\* as they were.
C14_ShortTextNoOp ==
    [][(last'.op = "extract_from_page" /\ last'.text.stripped < 50)
       => /\ ~last'.raised
          /\ ret' = <<Result(0, 0, 0)>>
          /\ last'.generated = 0
          /\ nodes' = nodes
          /\ edges' = edges]_vars

\* a page of 49 trimmed characters was extracted on a store that holds a
\* concept, and the store holds no chunk
C14_Witness ==
    /\ last.op = "extract_from_page"
    /\ last.text.stripped = 49
    /\ ret = <<Result(0, 0, 0)>>
    /\ nodes # <<>>
    /\ CountType(nodes, "page_chunk") = 0

----------------------------------------------------------------------------
(* extract_from_document under every answer of the model *)

MaxDocumentNodes == 3
MaxDocumentTime == 3
\* the edges up to which the cross-page pass is run on its own
MaxPassEdges == 2

DocumentDocs == {"d1"}
DocumentEntries ==
    {[page |-> page, text |-> text] :
        page \in ExtractPages,
        text \in {[len |-> 60, stripped |-> 49], [len |-> 50, stripped |-> 50]}}
\* the page lists of an upload: one page or two
DocumentPages ==
    {<<p>> : p \in DocumentEntries}
    \cup {pq \in {<<p, q>> : p \in DocumentEntries, q \in DocumentEntries} :
                pq[1].page # pq[2].page}

Relation(source, target, relation) ==
    [is_object |-> TRUE, source |-> source, target |-> target,
     relation |-> relation]

DocumentResponses ==
    {Unreachable, Text("plain", JArray), Text("plain", WellFormed)}
CrossResponses ==
    {Unreachable, Text("plain", JArray),
     Text("plain", JRelations(<<Relation(<<"a">>, <<"B">>, "depends_on")>>))}

\* concepts a document holds before it is extracted again
DocumentConcepts == ExtractConcepts

\* the answers of the model for a list of pages, one for each page
ResponsesFor(pages) == [DOMAIN pages -> DocumentResponses]

\* await extractor.extract_from_document(doc_id, pages), the model answering
\* responses[i] for pages[i] and cross_response for the cross-page pass
ExtractFromDocument(doc_id, pages, responses, cross_response) ==
    /\ Len(nodes) < MaxDocumentNodes
    /\ now(nodes) <= MaxDocumentTime
    /\ \E r \in {extract_from_document(nodes, edges, doc_id, pages, responses,
                                      cross_response)} :
           /\ nodes' = r.N
           /\ edges' = r.E
           /\ ret' = IF r.raised = "" THEN <<r.total>> ELSE <<>>
           /\ last' = [op |-> "extract_from_document", id |-> doc_id,
                       delta |-> 0, row |-> None,
                       raised |-> r.raised # "",
                       changes |-> 0,
                       pages |-> pages, responses |-> responses,
                       cross_response |-> cross_response,
                       generated |-> r.generated,
                       extracted |-> r.extracted,
                       cross_ran |-> r.cross_ran]

\* the documents and the answers of the model for which the cross-page pass
\* is run on its own: a document without concepts, and an answer that names
\* a known pair, a concept twice, an unknown concept and another relation
PassDocs == {"d1", "d2"}
PassRelations ==
    << Relation(<<"a">>, <<"B">>, "depends_on"),
       Relation(<<"a">>, <<"A">>, "explains"),
       Relation(<<"a">>, <<"z">>, "depends_on"),
       Relation(<<"b">>, <<"a">>, "contradicts"),
       Relation(<<"B">>, <<"a">>, "explains") >>
PassResponses ==
    {Unreachable, Text("plain", JArray), Text("plain", JRelations(PassRelations))}

\* await extractor._infer_cross_relationships(doc_id), the model answering
\* response if it is asked
InferCrossRelationships(doc_id, response) ==
    /\ Len(edges) < MaxPassEdges
    /\ \E r \in {infer_cross_relationships(nodes, edges, doc_id, response)} :
           /\ nodes' = nodes
           /\ edges' = r.E
           /\ ret' = IF r.raised = "" THEN <<r.edges_added>> ELSE <<>>
           /\ last' = [op |-> "_infer_cross_relationships", id |-> doc_id,
                       delta |-> 0, row |-> None,
                       raised |-> r.raised # "",
                       changes |-> 0,
                       pages |-> <<>>, responses |-> <<>>,
                       cross_response |-> response,
                       generated |-> r.generated,
                       extracted |-> <<>>,
                       cross_ran |-> r.raised = ""]

DocumentNext ==
    \/ \E node \in DocumentConcepts : AddNode(node)
    \/ \E doc_id \in PassDocs, response \in PassResponses :
            InferCrossRelationships(doc_id, response)
    \/ \E doc_id \in DocumentDocs, pages \in DocumentPages,
          cross_response \in CrossResponses :
        \E responses \in ResponsesFor(pages) :
            ExtractFromDocument(doc_id, pages, responses, cross_response)

SpecDocument == ExtractInit /\ [][DocumentNext]_vars

\* the pages of a list that are long enough to be extracted
LongPages(pages) ==
    {i \in DOMAIN pages : pages[i].text.stripped >= MinPageChars}

----------------------------------------------------------------------------
(* find_nodes over the stores that AddNode builds *)

\* the rows of the explored stores: two versions of each of three ids, with
\* equal and unequal confidences and timestamps, two types, two documents
FindNodeInputs ==
    {Node("f1", "concept", <<"a">>, NoData, "d1", 10, 1),
     Node("f1", "concept", <<"A", "b">>, NoData, "d1", 20, 2),
     Node("f2", "concept", <<"A", "b">>, NoData, "d1", 20, 1),
     Node("f2", "claim", <<"b">>, NoData, "d1", 10, 2),
     Node("f3", "concept", <<"a">>, NoData, "d2", 20, 2),
     Node("f3", "concept", <<"b", "a">>, NoData, "d1", 10, 2)}

FindTypes == {NULL, "concept"}
FindDocs == {NULL, "d1"}
FindLabels == {<<>>, <<"a">>, <<"B">>, <<"_", "b">>, <<"%">>}
FindLimits == {0, 1, 100}

\* graph.find_nodes(node_type, doc_id, label_contains, limit)
FindNodes(node_type, doc_id, label_contains, limit) ==
    /\ ret' = find_nodes(nodes, node_type, doc_id, label_contains, limit)
    /\ last' = [op |-> "find_nodes", id |-> NULL, delta |-> 0, row |-> None,
                raised |-> FALSE, changes |-> 0,
                node_type |-> node_type, doc_id |-> doc_id,
                label_contains |-> label_contains, limit |-> limit]
    /\ UNCHANGED <<nodes, edges>>

FindNext ==
    \/ \E node \in FindNodeInputs : AddNode(node)
    \/ \E node_type \in FindTypes, doc_id \in FindDocs,
          label_contains \in FindLabels, limit \in FindLimits :
            FindNodes(node_type, doc_id, label_contains, limit)

SpecFind == StoreInit /\ [][FindNext]_vars

\* a pattern with wildcards matches a prefix of s, letter case ignored
RECURSIVE MatchesPrefix(_, _)
MatchesPrefix(s, pat) ==
    IF pat = <<>> THEN TRUE
    ELSE IF Head(pat) = "%"
         THEN \E k \in 0..Len(s) :
                MatchesPrefix(SubSeq(s, k + 1, Len(s)), Tail(pat))
    ELSE /\ s # <<>>
         /\ Head(pat) = "_" \/ Lower(Head(pat)) = Lower(Head(s))
         /\ MatchesPrefix(Tail(s), Tail(pat))

\* the label holds the substring somewhere, letter case ignored and % and _
\* of the substring standing for any run and any one character
ContainsLike(label, sub) ==
    \E start \in 1..(Len(label) + 1) :
        MatchesPrefix(SubSeq(label, start, Len(label)), sub)

\* the label holds the substring, character for character
ContainsExactly(label, sub) ==
    \E start \in 1..(Len(label) + 1) :
        /\ start + Len(sub) - 1 <= Len(label)
        /\ SubSeq(label, start, start + Len(sub) - 1) = sub

\* the rows that pass the type and document filters of the last find_nodes
PassesFilters(n) ==
    /\ last.node_type # NULL => n.type = last.node_type
    /\ last.doc_id # NULL => n.doc_id = last.doc_id

\* the rows that pass every filter of the last find_nodes call
Matching ==
    {n \in Range(nodes) :
        /\ PassesFilters(n)
        /\ last.label_contains # <<>> => ContainsLike(n.label, last.label_contains)}

\* a row ranks above another: higher confidence, or equal confidence and a
\* later created_at
Outranks(a, b) ==
    \/ a.confidence > b.confidence
    \/ a.confidence = b.confidence /\ a.created_at > b.created_at

\* C15: find_nodes returns exactly the nodes that pass every supplied filter,
\* sorted by confidence descending and then created_at descending, cut to
\* the first limit nodes of that order.
C15_FindNodesSortedAndCut ==
    last.op = "find_nodes"
    => /\ Range(ret) \subseteq Matching
       /\ Len(ret) = Min(last.limit, Cardinality(Matching))
       /\ Cardinality(Range(ret)) = Len(ret)
       /\ \A i \in DOMAIN ret, j \in DOMAIN ret :
            i < j => ~Outranks(ret[j], ret[i])
       /\ \A n \in Matching \ Range(ret), r \in Range(ret) : ~Outranks(n, r)

\* a query with a type and a document filter and limit 1 had three matches
\* of two confidences, and returned one
C15_Witness ==
    /\ last.op = "find_nodes"
    /\ last.node_type = "concept"
    /\ last.doc_id = "d1"
    /\ last.limit = 1
    /\ Cardinality(Matching) = 3
    /\ Cardinality({n.confidence : n \in Matching}) = 2
    /\ Len(ret) = 1

\* C16 as stated: the label filter of find_nodes is case-sensitive
\* containment, so a substring that differs from the label only in letter
\* case does not match.
C16_LabelFilterCaseSensitive ==
    (last.op = "find_nodes" /\ last.limit = 100)
    => Range(ret) =
        {n \in Range(nodes) :
            PassesFilters(n) /\ ContainsExactly(n.label, last.label_contains)}

\* C16: the label filter of find_nodes is SQLite's LIKE '%substring%': a
\* node matches iff its label holds the substring with letter case ignored,
\* a % of the substring standing for any run of characters and a _ for any
\* one character.
C16_LabelFilterLike ==
    (last.op = "find_nodes" /\ last.limit = 100)
    => Range(ret) =
        {n \in Range(nodes) :
            PassesFilters(n) /\ ContainsLike(n.label, last.label_contains)}

\* the substring B found the label "Ab", which holds no capital B
C16_Witness ==
    /\ last.op = "find_nodes"
    /\ last.limit = 100
    /\ last.label_contains = <<"B">>
    /\ \E n \in Range(ret) : n.label = <<"A", "b">>

----------------------------------------------------------------------------
(* get_confusion_history over the graphs that AddEdge builds *)

MaxConfusionEdges == 3

\* two concepts, two signals of different times and an annotation
ConfusionNodes ==
    << Node("c1", "concept", <<"a">>, NoData, "d1", ConfOne, 1),
       Node("c2", "concept", <<"b">>, NoData, "d1", ConfOne, 1),
       Node("s1", "signal", <<"s">>, PageData(1), "d1", ConfOne, 2),
       Node("s2", "signal", <<"s">>, PageData(2), "d1", ConfOne, 3),
       Node("n1", "annotation", <<"n">>, PageData(1), "d1", ConfOne, 4) >>

ConfusionSources == {"s1", "s2", "n1"}
ConfusionTargets == {"c1", "c2"}
ConfusionRelTypes == {"confused_at", "mentions"}
ConfusionQueries == {<<>>, <<"c1">>, <<"c1", "c2">>}
ConfusionLimits == {1, 5}

ConfusionInit ==
    /\ nodes = ConfusionNodes
    /\ edges = <<>>
    /\ last = Call("init", "", 0, None, FALSE, 0)
    /\ ret = <<>>

\* add_edge(Edge(id=make_id(), source_id=..., target_id=..., rel_type=...))
LinkConfusion(s, t, rel_type) ==
    /\ Len(edges) < MaxConfusionEdges
    /\ AddEdge(Edge(make_id(Ids(edges)), s, t, rel_type, WeightOne))

GetConfusionHistory(doc_id, concept_ids, limit) ==
    /\ ret' = get_confusion_history(nodes, edges, doc_id, concept_ids, limit)
    /\ last' = [op |-> "get_confusion_history", id |-> doc_id, delta |-> 0,
                row |-> None, raised |-> FALSE, changes |-> 0,
                concept_ids |-> concept_ids, limit |-> limit]
    /\ UNCHANGED <<nodes, edges>>

ConfusionNext ==
    \/ \E s \in ConfusionSources, t \in ConfusionTargets,
          rel_type \in ConfusionRelTypes : LinkConfusion(s, t, rel_type)
    \/ \E concept_ids \in ConfusionQueries, limit \in ConfusionLimits :
            GetConfusionHistory("d1", concept_ids, limit)

SpecConfusion == ConfusionInit /\ [][ConfusionNext]_vars

\* C17: get_confusion_history returns at most limit distinct nodes, each a
\* signal node with a confused_at edge to one of concept_ids, the most
\* recent first; it returns the empty sequence for empty concept_ids.
C17_ConfusionHistoryDistinct ==
    last.op = "get_confusion_history"
    => /\ Len(ret) <= last.limit
       /\ \A i \in DOMAIN ret, j \in DOMAIN ret :
            i # j => ret[i].id # ret[j].id
       /\ \A i \in DOMAIN ret :
            /\ ret[i].type = "signal"
            /\ \E e \in Range(edges) :
                /\ e.source_id = ret[i].id
                /\ e.rel_type = "confused_at"
                /\ e.target_id \in Range(last.concept_ids)
       /\ \A i \in DOMAIN ret, j \in DOMAIN ret :
            i < j => ret[i].created_at >= ret[j].created_at
       /\ last.concept_ids = <<>> => ret = <<>>

----------------------------------------------------------------------------
(* get_context_bundle over a page of six concepts and six claims *)

MaxBundleEdges == 15

StatementData(statement) == [k \in {"statement"} |-> statement]
DefinitionData(definition) == [k \in {"definition"} |-> definition]

\* a document of two chunks; page 1 mentions six concepts and six claims;
\* four more concepts, two of them named alike and one named like c1, the
\* first of them a prerequisite of the page's sixth concept, and a signal
BundleNodes ==
    << Node("p1", "page_chunk", <<"p">>, PageData(1), "d1", ConfOne, 1),
       Node("p2", "page_chunk", <<"p">>, PageData(2), "d1", ConfOne, 1),
       Node("c1", "concept", <<"A">>, DefinitionData("def"), "d1", ConfOne, 1),
       Node("c2", "concept", <<"b">>, NoData, "d1", ConfOne, 1),
       Node("c3", "concept", <<"c">>, NoData, "d1", ConfOne, 1),
       Node("c4", "concept", <<"g">>, NoData, "d1", ConfOne, 1),
       Node("c5", "concept", <<"e">>, NoData, "d1", ConfOne, 1),
       Node("c6", "concept", <<"f">>, NoData, "d1", ConfOne, 1),
       Node("k1", "claim", <<"k">>, StatementData("s1"), "d1", ConfOne, 1),
       Node("k2", "claim", <<"k">>, NoData, "d1", ConfOne, 1),
       Node("k3", "claim", <<"k">>, NoData, "d1", ConfOne, 1),
       Node("k4", "claim", <<"k">>, NoData, "d1", ConfOne, 1),
       Node("k5", "claim", <<"k">>, NoData, "d1", ConfOne, 1),
       Node("k6", "claim", <<"k">>, NoData, "d1", ConfOne, 1),
       Node("r1", "concept", <<"d">>, NoData, "d1", ConfOne, 1),
       Node("r2", "concept", <<"D">>, NoData, "d1", ConfOne, 1),
       Node("r3", "concept", <<"a">>, NoData, "d1", ConfOne, 1),
       Node("r4", "concept", <<"y">>, NoData, "d1", ConfOne, 1),
       Node("s1", "signal", <<"s">>, PageData(1), "d1", ConfOne, 2) >>

Mention(id, target) == Edge(id, "p1", target, "mentions", WeightOne)

BundleEdges ==
    << Mention("m01", "c1"), Mention("m02", "k1"), Mention("m03", "c2"),
       Mention("m04", "k2"), Mention("m05", "c3"), Mention("m06", "k3"),
       Mention("m07", "c4"), Mention("m08", "k4"), Mention("m09", "c5"),
       Mention("m10", "k5"), Mention("m11", "c6"), Mention("m12", "k6"),
       Edge("m13", "c6", "r1", "depends_on", WeightOne) >>

\* the edges the explored graphs add: prerequisites of the first and of the
\* sixth concept of the page, a prerequisite of a prerequisite, confusions
BundleLinks ==
    {<<"c1", t, "depends_on">> : t \in {"r1", "r2", "r3", "r4"}}
    \cup {<<"c6", "r4", "depends_on">>, <<"r1", "r4", "depends_on">>,
          <<"s1", "c1", "confused_at">>, <<"s1", "r1", "confused_at">>}

\* doc_id, page, passage, max_concepts, max_prereqs
BundleQueries ==
    {<<"d1", 1, "", 7, 5>>, <<"d1", 1, "t", 7, 1>>, <<"d1", 1, "", 1, 5>>,
     <<"d1", 1, "t", 0, 5>>, <<"d1", 1, "", 7, 0>>, <<"d1", 1, "", 5, 2>>,
     <<"d1", 2, "t", 7, 5>>, <<"d1", 9, "t", 7, 5>>, <<"d1", 9, "", 7, 5>>,
     <<"", 1, "t", 7, 5>>}

BundleInit ==
    /\ nodes = BundleNodes
    /\ edges = BundleEdges
    /\ last = Call("init", "", 0, None, FALSE, 0)
    /\ ret = <<>>

\* add_edge(Edge(id=make_id(), source_id=..., target_id=..., rel_type=...))
LinkBundle(s, t, rel_type) ==
    /\ Len(edges) < MaxBundleEdges
    /\ AddEdge(Edge(make_id(Ids(edges)), s, t, rel_type, WeightOne))

\* retriever.get_context_bundle(doc_id, page, passage, max_concepts,
\* max_prereqs) and bundle.is_empty
GetContextBundle(doc_id, page, passage, max_concepts, max_prereqs) ==
    /\ \E r \in {get_context_bundle(nodes, edges, doc_id, page, passage,
                                    max_concepts, max_prereqs)} :
        /\ ret' = <<r.bundle>>
        /\ last' = [op |-> "get_context_bundle", id |-> doc_id,
                    delta |-> page, row |-> None, raised |-> FALSE,
                    changes |-> 0, passage |-> passage,
                    max_concepts |-> max_concepts,
                    max_prereqs |-> max_prereqs,
                    looked_up |-> r.looked_up,
                    is_empty |-> is_empty(r.bundle)]
    /\ UNCHANGED <<nodes, edges>>

BundleNext ==
    \/ \E l \in BundleLinks : LinkBundle(l[1], l[2], l[3])
    \/ \E q \in BundleQueries : GetContextBundle(q[1], q[2], q[3], q[4], q[5])

SpecBundle == BundleInit /\ [][BundleNext]_vars

\* the bundle of the last get_context_bundle call
Bundle == ret[1]

\* the names of a list of entries, letter case ignored
LowerNames(entries) == {lower(entries[i].name) : i \in DOMAIN entries}

\* C18: the bundle of get_context_bundle is bounded by its parameters: at
\* most max_concepts concept entries, at most 5 claim entries, at most
\* max_prereqs prerequisite entries, and prerequisites looked up for at most
\* the first 5 listed concepts: every prerequisite entry is within two
\* depends_on hops of one of them.
C18_BundleBounded ==
    last.op = "get_context_bundle"
    => /\ Len(Bundle.concepts) <= last.max_concepts
       /\ Len(Bundle.claims) <= 5
       /\ Len(Bundle.prerequisites) <= last.max_prereqs
       /\ Len(last.looked_up) <= 5
       /\ Len(last.looked_up) <= Len(Bundle.concepts)
       /\ \A i \in DOMAIN Bundle.prerequisites :
            \E j \in DOMAIN last.looked_up :
                \E n \in Range(nodes) :
                    /\ n.id \in WithinHops(last.looked_up[j], 2)
                    /\ n.label = Bundle.prerequisites[i].name

\* the page's six concepts and five of its six claims are listed under
\* max_concepts = 7, the first concept has two prerequisites of different
\* names and the sixth has one, and max_prereqs = 1 left one entry
C18_Witness ==
    /\ last.op = "get_context_bundle"
    /\ last.max_concepts = 7
    /\ last.max_prereqs = 1
    /\ Len(Bundle.concepts) = 6
    /\ Len(Bundle.claims) = 5
    /\ Len(last.looked_up) = 5
    /\ Len(Bundle.prerequisites) = 1
    /\ {"r1", "r4"} \subseteq DependsOnStep({"c1"})
    /\ DependsOnStep({"c6"}) # {}

\* C19: in every bundle of get_context_bundle no two prerequisite entries
\* have names equal ignoring case, and no prerequisite entry has the name,
\* ignoring case, of an entry of the concept list.
C19_PrerequisitesDistinct ==
    last.op = "get_context_bundle"
    => /\ \A i \in DOMAIN Bundle.prerequisites,
             j \in DOMAIN Bundle.prerequisites :
            i # j => lower(Bundle.prerequisites[i].name)
                        # lower(Bundle.prerequisites[j].name)
       /\ LowerNames(Bundle.prerequisites) \cap LowerNames(Bundle.concepts) = {}

\* the first concept of the page depends on "d" and on "D"; with room for
\* five prerequisites the bundle lists one of the two
C19_Witness ==
    /\ last.op = "get_context_bundle"
    /\ last.max_prereqs = 5
    /\ last.max_concepts = 7
    /\ DependsOnStep({"c1"}) = {"r1", "r2"}
    /\ Len(Bundle.prerequisites) = 1

\* the page of the last call has no chunk of the document
Unpopulated ==
    \A n \in Range(nodes) :
        ~(/\ n.type = "page_chunk"
          /\ n.doc_id = last.id
          /\ json_extract(n.data, "page") = <<last.delta>>)

\* C20: get_context_bundle for a page without page_chunk and mentions edges
\* returns a bundle whose is_empty is true, whatever the passage; is_empty
\* is true iff concepts, prerequisites, claims and confusion_history are
\* all empty.
C20_EmptyBundle ==
    last.op = "get_context_bundle"
    => /\ last.is_empty
            <=> /\ Bundle.concepts = <<>>
                /\ Bundle.prerequisites = <<>>
                /\ Bundle.claims = <<>>
                /\ Bundle.confusion_history = <<>>
       /\ Unpopulated => last.is_empty

\* a page without chunk was asked for with a passage, in a graph that holds
\* a confusion, and the bundle is empty although it has the passage
C20_Witness ==
    /\ last.op = "get_context_bundle"
    /\ last.id = "d1"
    /\ Unpopulated
    /\ last.passage = "t"
    /\ Bundle.passage = "t"
    /\ last.is_empty
    /\ \E e \in Range(edges) : e.rel_type = "confused_at"


----------------------------------------------------------------------------
(* graph.py: get_page_chunk; retriever.py: get_concept_summary *)

\* SELECT * FROM nodes WHERE type = 'page_chunk' AND doc_id = ? AND
\* json_extract(data, '$.page') = ?, fetchone(): the first such row or None
get_page_chunk(N, doc_id, page) ==
    LET chunks == SelectSeq(N, LAMBDA p : is_chunk_of(p, doc_id, page))
    IN  IF chunks = <<>> THEN None ELSE Head(chunks)

\* find_nodes(node_type=CONCEPT, doc_id=doc_id, limit=200)
SummaryLimit == 200

\* one {id, name, definition, confidence, depends_on} entry per concept
get_concept_summary(N, E, doc_id) ==
    LET concepts == find_nodes(N, "concept", doc_id, <<>>, SummaryLimit)
    IN  [i \in DOMAIN concepts |->
            LET c == concepts[i]
                deps == get_edges_from(E, c.id, "depends_on")
            IN  [id |-> c.id, name |-> c.label,
                 definition |-> data_get(c.data, "definition", ""),
                 confidence |-> c.confidence,
                 depends_on |-> [j \in DOMAIN deps |-> deps[j].target_id]]]

----------------------------------------------------------------------------
(* updater.py *)

\* update_node_confidence(concept.id, -0.05), in units of 0.05
StuckPenalty == 1
\* update_node_confidence(concept.id, 0.1)
HighlightBoost == 2
\* update_node_confidence(matches[0].id, 0.15)
QuestionBoost == 3
\* confidence=0.6 of a concept made from a question
QuestionConfidence == 12
\* update_node_confidence(node.id, 0.2)
UnderstoodBoost == 4
\* update_edge_weight(edge.id, 0.1), in units of 0.1
RereadBoost == 1
\* label=text[:80]
HighlightChars == 80

\* the two tables
Graph(N, E) == [N |-> N, E |-> E]

\* self.graph.add_edge(Edge(id=make_id(), source_id=..., target_id=...,
\* rel_type=...)): both endpoints are rows the caller has just read or written
connect(G, source_id, target_id, rel_type) ==
    Graph(G.N, add_edge(G.N, G.E,
                        Edge(fresh_id(G.N, G.E), source_id, target_id,
                             rel_type, WeightOne)).edges)

\* every state but focused counted as a confusion
is_not_focused(state) == state # "focused"

\* state in (UserState.STUCK, UserState.TIRED)
is_confusion(state) == state \in {"stuck", "tired"}

\* f"{state.value} on page {page}"
signal_label(state, page) == <<state, " on page ", str(page)>>

\* "for concept in concepts" of record_stuck: an edge from the signal and a
\* lower confidence for every row of get_concepts_for_page
RECURSIVE confuse(_, _, _)
confuse(G, signal_id, concepts) ==
    IF concepts = <<>> THEN G
    ELSE CHOOSE out \in
            {confuse(Graph(update_node_confidence(linked.N, Head(concepts).id,
                                                  0 - StuckPenalty),
                           linked.E),
                     signal_id, Tail(concepts)) :
                linked \in {connect(G, signal_id, Head(concepts).id,
                                    "confused_at")}} : TRUE

record_stuck(N, E, doc_id, page, state) ==
    IF ~is_confusion(state) THEN Graph(N, E)
    ELSE LET signal_id == fresh_id(N, E)
             N1 == add_node(N,
                     Node(signal_id, "signal", signal_label(state, page),
                          [page |-> page, state |-> state], doc_id, ConfOne,
                          now(N)))
             chunk == get_page_chunk(N1, doc_id, page)
         IN  CHOOSE out \in
                {confuse(G, signal_id,
                         get_concepts_for_page(G.N, G.E, doc_id, page)) :
                    G \in {IF chunk # None
                           THEN connect(Graph(N1, E), signal_id, chunk.id,
                                        "confused_at")
                           ELSE Graph(N1, E)}} : TRUE

\* "for concept in concepts" of record_highlight
RECURSIVE boost(_, _)
boost(N, concepts) ==
    IF concepts = <<>> THEN N
    ELSE CHOOSE out \in
            {boost(N1, Tail(concepts)) :
                N1 \in {update_node_confidence(N, Head(concepts).id,
                                               HighlightBoost)}} : TRUE

\* text is a sequence of characters
record_highlight(N, E, doc_id, page, text) ==
    LET annotation_id == fresh_id(N, E)
        N1 == add_node(N,
                Node(annotation_id, "annotation", take(text, HighlightChars),
                     [page |-> page, text |-> text], doc_id, ConfOne, now(N)))
        chunk == get_page_chunk(N1, doc_id, page)
    IN  CHOOSE out \in
            {Graph(boost(G.N, get_concepts_for_page(G.N, G.E, doc_id, page)),
                   G.E) :
                G \in {IF chunk # None
                       THEN connect(Graph(N1, E), annotation_id, chunk.id,
                                    "annotated")
                       ELSE Graph(N1, E)}} : TRUE

\* find_nodes(node_type=CONCEPT, doc_id=doc_id, label_contains=concept_name,
\* limit=1)
find_concept(N, doc_id, concept_name) ==
    find_nodes(N, "concept", doc_id, concept_name, 1)

\* a concept made from a question with the confidence of an extracted one
question_concept_extracted(id, concept_name, doc_id, created_at) ==
    Node(id, "concept", concept_name,
         [definition |-> "", source |-> "user_question"],
         doc_id, ExtractedConfidence, created_at)

\* Node(id=new_id, type=CONCEPT, label=concept_name, data={"definition": "",
\* "source": "user_question"}, doc_id=doc_id, confidence=0.6)
question_concept(id, concept_name, doc_id, created_at) ==
    Node(id, "concept", concept_name,
         [definition |-> "", source |-> "user_question"],
         doc_id, QuestionConfidence, created_at)

\* a question that makes a new concept whether or not the name is known
record_question_new(N, E, doc_id, concept_name) ==
    Graph(add_node(N, question_concept(fresh_id(N, E), concept_name, doc_id,
                                       now(N))), E)

record_question_about(N, E, doc_id, concept_name) ==
    LET matches == find_concept(N, doc_id, concept_name)
    IN  IF matches # <<>>
        THEN Graph(update_node_confidence(N, matches[1].id, QuestionBoost), E)
        ELSE Graph(add_node(N, question_concept(fresh_id(N, E), concept_name,
                                                doc_id, now(N))), E)

\* "for edge in edges" of record_reread
RECURSIVE boost_edges(_, _)
boost_edges(E, found) ==
    IF found = <<>> THEN E
    ELSE CHOOSE out \in
            {boost_edges(E1, Tail(found)) :
                E1 \in {update_edge_weight(E, Head(found).id, RereadBoost)}} :
            TRUE

\* "for concept in concepts" of record_reread: the mentions edges to the
\* concept are read after the boosts made for the rows before it
RECURSIVE reread(_, _)
reread(E, concepts) ==
    IF concepts = <<>> THEN E
    ELSE CHOOSE out \in
            {reread(E1, Tail(concepts)) :
                E1 \in {boost_edges(E, get_edges_to(E, Head(concepts).id,
                                                    "mentions"))}} : TRUE

record_reread(N, E, doc_id, page) ==
    Graph(N, reread(E, get_concepts_for_page(N, E, doc_id, page)))

\* a concept marked understood without its confidence being raised
mark_understood_flag_only(N, E, doc_id, concept_name) ==
    LET matches == find_concept(N, doc_id, concept_name)
    IN  IF matches = <<>> THEN Graph(N, E)
        ELSE Graph(add_node(N, [matches[1] EXCEPT
                                  !.data = put(@, "understood", TRUE)]), E)

\* node.data["understood"] = True; add_node(node);
\* update_node_confidence(node.id, 0.2)
mark_understood(N, E, doc_id, concept_name) ==
    LET matches == find_concept(N, doc_id, concept_name)
    IN  IF matches = <<>> THEN Graph(N, E)
        ELSE Graph(update_node_confidence(
                     add_node(N, [matches[1] EXCEPT
                                    !.data = put(@, "understood", TRUE)]),
                     matches[1].id, UnderstoodBoost), E)


----------------------------------------------------------------------------
(* the updater, the retriever and the extractor at work on one store: a
   page whose chunk mentions a concept and a claim, concepts off the page
   and in another document, and the mentions edges that AddEdge adds *)

\* the nodes the explored stores may hold, and the edges up to which an
\* edge is added by hand
MaxUpdaterNodes == 6
MaxUpdaterEdges == 3
\* the largest weight at which a page is still read again
MaxUpdaterWeight == 10

UpdaterNodes ==
    << Node("p1", "page_chunk", <<"p">>, PageData(1), "d1", ConfOne, 1),
       Node("c1", "concept", <<"A", "b">>, DefinitionData("def"), "d1", 17, 1),
       Node("c2", "concept", <<"c">>, NoData, "d1", ConfOne, 1),
       Node("k1", "claim", <<"k">>, NoData, "d1", 19, 1),
       Node("e1", "concept", <<"A", "b">>, NoData, "d2", 10, 1) >>

UpdaterEdges ==
    << Edge("m1", "p1", "c1", "mentions", WeightOne),
       Edge("m2", "p1", "k1", "mentions", WeightOne) >>

\* a second mentions edge from the chunk to the first concept, a mention of
\* the second concept
UpdaterLinks == {<<"p1", "c1", "mentions">>, <<"p1", "c2", "mentions">>}

UpdaterDocs == {"d1"}
UpdaterPages == {1, 2}
\* the page and the state of a record_stuck call
UpdaterSignals ==
    {<<1, "stuck">>, <<2, "tired">>, <<1, "focused">>, <<1, "idle">>}
UpdaterNames == {<<"c">>, <<"B">>, <<"_", "b">>, <<"z">>}
UnderstoodNames == {<<"B">>, <<"z">>}
UpdaterTexts == {<<"t">>}
\* a full page
UpdaterPageTexts == {[len |-> 50, stripped |-> 50]}
UpdaterResponses == {Unreachable, Text("plain", WellFormed)}

UpdaterInit ==
    /\ nodes = UpdaterNodes
    /\ edges = UpdaterEdges
    /\ last = Call("init", "", 0, None, FALSE, 0)
    /\ ret = <<>>

\* the record of an updater or retriever call and its argument
Did(op, doc_id, page, arg) ==
    [op |-> op, id |-> doc_id, delta |-> page, row |-> None,
     raised |-> FALSE, changes |-> 0, arg |-> arg]

\* add_edge(Edge(id=make_id(), source_id=..., target_id=..., rel_type=...))
LinkUpdater(s, t, rel_type) ==
    /\ Len(edges) < MaxUpdaterEdges
    /\ AddEdge(Edge(fresh_id(nodes, edges), s, t, rel_type, WeightOne))

\* updater.record_stuck(doc_id, page, state)
RecordStuck(doc_id, page, state) ==
    /\ Len(nodes) < MaxUpdaterNodes
    /\ \E G \in {record_stuck(nodes, edges, doc_id, page, state)} :
        /\ nodes' = G.N
        /\ edges' = G.E
        /\ last' = Did("record_stuck", doc_id, page, state)
        /\ ret' = <<>>

\* updater.record_highlight(doc_id, page, text)
RecordHighlight(doc_id, page, text) ==
    /\ Len(nodes) < MaxUpdaterNodes
    /\ \E G \in {record_highlight(nodes, edges, doc_id, page, text)} :
        /\ nodes' = G.N
        /\ edges' = G.E
        /\ last' = Did("record_highlight", doc_id, page, text)
        /\ ret' = <<>>

\* updater.record_question_about(doc_id, concept_name)
RecordQuestionAbout(doc_id, concept_name) ==
    /\ Len(nodes) < MaxUpdaterNodes
    /\ \E G \in {record_question_about(nodes, edges, doc_id, concept_name)} :
        /\ nodes' = G.N
        /\ edges' = G.E
        /\ last' = Did("record_question_about", doc_id, 0, concept_name)
        /\ ret' = <<>>

\* updater.record_reread(doc_id, page)
RecordReread(doc_id, page) ==
    /\ \A e \in Range(edges) : e.weight <= MaxUpdaterWeight
    /\ \E G \in {record_reread(nodes, edges, doc_id, page)} :
        /\ nodes' = G.N
        /\ edges' = G.E
        /\ last' = Did("record_reread", doc_id, page, "")
        /\ ret' = <<>>

\* updater.mark_understood(doc_id, concept_name)
MarkUnderstood(doc_id, concept_name) ==
    /\ \E G \in {mark_understood(nodes, edges, doc_id, concept_name)} :
        /\ nodes' = G.N
        /\ edges' = G.E
        /\ last' = Did("mark_understood", doc_id, 0, concept_name)
        /\ ret' = <<>>

\* a lookup that counts as a re-read of the page
after_lookup_reread(N, E, doc_id, page) == record_reread(N, E, doc_id, page)

\* the tables after get_context_bundle: get_concepts_for_page,
\* get_prerequisites, get_confusion_history, get_edges_from and get_node
\* run SELECT statements only
after_lookup(N, E, doc_id, page) == Graph(N, E)

\* retriever.get_context_bundle(doc_id, page)
LookUpBundle(doc_id, page) ==
    /\ \E G \in {after_lookup(nodes, edges, doc_id, page)} :
        /\ nodes' = G.N
        /\ edges' = G.E
    /\ ret' = <<get_context_bundle(nodes, edges, doc_id, page, "",
                                   MaxBundleConcepts, MaxBundlePrereqs).bundle>>
    /\ last' = Did("get_context_bundle", doc_id, page, "")

\* retriever.get_concept_summary(doc_id): find_nodes and get_edges_from
LookUpSummary(doc_id) ==
    /\ ret' = get_concept_summary(nodes, edges, doc_id)
    /\ last' = Did("get_concept_summary", doc_id, 0, "")
    /\ UNCHANGED <<nodes, edges>>

\* await extractor.extract_from_document(doc_id, [page]), the model giving
\* the same answer whenever it is asked
ExtractUpdater(doc_id, page, text, response) ==
    /\ Len(nodes) < MaxUpdaterNodes
    /\ \E r \in {extract_from_document(nodes, edges, doc_id,
                                      <<[page |-> page, text |-> text]>>,
                                      <<response>>, response)} :
        /\ nodes' = r.N
        /\ edges' = r.E
        /\ ret' = IF r.raised = "" THEN <<r.total>> ELSE <<>>
        /\ last' = [Did("extract_from_document", doc_id, page, text)
                        EXCEPT !.raised = r.raised # ""]

UpdaterNext ==
    \/ \E l \in UpdaterLinks : LinkUpdater(l[1], l[2], l[3])
    \/ \E doc_id \in UpdaterDocs, signal \in UpdaterSignals :
            RecordStuck(doc_id, signal[1], signal[2])
    \/ \E doc_id \in UpdaterDocs, page \in UpdaterPages,
          text \in UpdaterTexts : RecordHighlight(doc_id, page, text)
    \/ \E doc_id \in UpdaterDocs, concept_name \in UpdaterNames :
            RecordQuestionAbout(doc_id, concept_name)
    \/ \E doc_id \in UpdaterDocs, page \in UpdaterPages :
            RecordReread(doc_id, page)
    \/ \E doc_id \in UpdaterDocs, concept_name \in UnderstoodNames :
            MarkUnderstood(doc_id, concept_name)
    \/ \E doc_id \in UpdaterDocs : LookUpBundle(doc_id, 1)
    \/ \E doc_id \in UpdaterDocs : LookUpSummary(doc_id)
    \/ \E doc_id \in UpdaterDocs, page \in UpdaterPages,
          text \in UpdaterPageTexts, response \in UpdaterResponses :
            ExtractUpdater(doc_id, page, text, response)

SpecUpdater == UpdaterInit /\ [][UpdaterNext]_vars


\* C21: GraphRetriever is read-only: get_context_bundle and
\* get_concept_summary, in any store state and with any arguments, leave
\* every node and every edge of the store unchanged.
C21_RetrieverReadOnly ==
    [][last'.op \in {"get_context_bundle", "get_concept_summary"}
       => nodes' = nodes /\ edges' = edges]_vars

\* a bundle with concepts, a claim and a confusion was built from a store
\* on which the updater has been at work
C21_Witness ==
    /\ last.op = "get_context_bundle"
    /\ ret[1].concepts # <<>>
    /\ ret[1].claims # <<>>
    /\ ret[1].confusion_history # <<>>
    /\ CountType(nodes, "signal") = 1

\* C22: record_stuck(doc, page, state) is a no-op unless state is stuck or
\* tired: for state focused or idle it creates no signal node, adds no edge
\* and changes no confidence.
C22_StuckOnlyWhenConfused ==
    [][(last'.op = "record_stuck" /\ last'.arg \in {"focused", "idle"})
       => nodes' = nodes /\ edges' = edges]_vars

\* record_stuck was called with state idle for the page that has concepts,
\* and the store has no signal
C22_Witness ==
    /\ last.op = "record_stuck"
    /\ last.arg = "idle"
    /\ MentionedOnPage(last.id, last.delta) # {}
    /\ CountType(nodes, "signal") = 0
    /\ Len(edges) = Len(UpdaterEdges)


\* the nodes that get_concepts_for_page finds on the page of the call: the
\* concepts, and the claims, that a chunk of the page mentions
ConceptsOnPage == MentionedOnPage(last'.id, last'.delta)

\* the page of the call has a chunk
ChunkExists == ChunksOf(nodes, last'.id, last'.delta) # {}

\* the rows of a table after the step whose id the table did not hold
Added(table, table2) == {r \in Range(table2) : r.id \notin Ids(table)}

\* C23: record_stuck(doc, page, state) with state stuck or tired creates
\* exactly one signal node, adds one confused_at edge from it to the page's
\* chunk when the chunk exists and one confused_at edge to every concept on
\* that page, and lowers the confidence of each such concept by exactly 0.05
\* (clamped at 0), leaving the confidence of every other node unchanged.
C23_StuckLowersPageConcepts ==
    [][(last'.op = "record_stuck" /\ last'.arg \in {"stuck", "tired"})
       => /\ Cardinality(Added(nodes, nodes')) = 1
          /\ Len(nodes') = Len(nodes) + 1
          /\ \A signal \in Added(nodes, nodes') :
                /\ signal.type = "signal"
                /\ \A e \in Added(edges, edges') :
                        e.rel_type = "confused_at" /\ e.source_id = signal.id
                /\ Cardinality({e \in Added(edges, edges') :
                        e.target_id \in
                            {nodes[i].id : i \in ChunksOf(nodes, last'.id,
                                                          last'.delta)}})
                    = IF ChunkExists THEN 1 ELSE 0
                /\ \A c \in ConceptsOnPage :
                    Cardinality({e \in Added(edges, edges') :
                                    e.target_id = c.id}) = 1
          /\ Len(edges') = Len(edges) + Cardinality(ConceptsOnPage)
                           + IF ChunkExists THEN 1 ELSE 0
          /\ \A n \in Range(nodes) :
                RowOf(nodes', n.id).confidence
                    = IF n \in ConceptsOnPage
                      THEN Clamp01(n.confidence - StuckPenalty)
                      ELSE n.confidence]_vars


\* the concepts of a document whose label holds the name as a substring,
\* letter case ignored
SubstringMatches(doc, name) ==
    {n \in Range(nodes) :
        /\ n.type = "concept"
        /\ n.doc_id = doc
        /\ ContainsExactly(lower(n.label), lower(name))}

\* the concepts of a document that the label filter of find_nodes matches
\* to the name: % and _ of the name stand for any run and any one character
LikeMatches(doc, name) ==
    {n \in Range(nodes) :
        /\ n.type = "concept"
        /\ n.doc_id = doc
        /\ ContainsLike(n.label, name)}

\* the step changes the confidence of no node but c
OnlyConfidenceOf(c) ==
    /\ DOMAIN nodes' = DOMAIN nodes
    /\ \A i \in DOMAIN nodes :
        IF nodes[i].id = c.id
        THEN [nodes'[i] EXCEPT !.confidence = 0] = [nodes[i] EXCEPT !.confidence = 0]
        ELSE nodes'[i] = nodes[i]

\* record_question_about(doc, name) on a known name (some concept of doc
\* holds name as a substring, letter case ignored) creates no node and
\* strictly increases the matched concept's confidence, by 0.15 or less
\* when clamped at 1, and changes the confidence of no other node
C24_KnownStrictlyBoosted ==
    [][(/\ last'.op = "record_question_about"
        /\ SubstringMatches(last'.id, last'.arg) # {})
       => \E c \in SubstringMatches(last'.id, last'.arg) :
            /\ OnlyConfidenceOf(c)
            /\ RowOf(nodes', c.id).confidence > c.confidence
            /\ RowOf(nodes', c.id).confidence - c.confidence <= QuestionBoost]_vars

\* C24 (amended): record_question_about(doc, name) on a known name creates
\* no node and no edge and sets the confidence of one concept of doc, the one
\* that find_nodes ranks first among those its label filter matches to name,
\* to min(1, confidence + 0.15), which is no increase when the confidence is
\* 1 already; it changes no other node.
C24_KnownBoostedClamped ==
    [][(/\ last'.op = "record_question_about"
        /\ SubstringMatches(last'.id, last'.arg) # {})
       => /\ edges' = edges
          /\ \E c \in LikeMatches(last'.id, last'.arg) :
                /\ \A m \in LikeMatches(last'.id, last'.arg) : ~Outranks(m, c)
                /\ OnlyConfidenceOf(c)
                /\ RowOf(nodes', c.id).confidence
                    = Clamp01(c.confidence + QuestionBoost)]_vars

\* the question named the concept whose confidence is 1: no node was made
\* and the concept's confidence is still 1
C24_Witness ==
    /\ last.op = "record_question_about"
    /\ last.arg = <<"c">>
    /\ RowOf(nodes, "c2").confidence = ConfOne
    /\ Len(nodes) = Len(UpdaterNodes)

\* the step appends one concept made from the question and changes nothing
\* else
QuestionConceptCreated ==
    /\ edges' = edges
    /\ Len(nodes') = Len(nodes) + 1
    /\ SubSeq(nodes', 1, Len(nodes)) = nodes
    /\ LET n == nodes'[Len(nodes')]
       IN  /\ n.id \notin Ids(nodes)
           /\ n.type = "concept"
           /\ n.label = last'.arg
           /\ n.doc_id = last'.id
           /\ n.confidence = QuestionConfidence
           /\ json_extract(n.data, "source") = <<"user_question">>

\* record_question_about(doc, name) on an unknown name (no concept of doc
\* holds name as a substring, letter case ignored) creates exactly one new
\* concept node with label name, doc_id doc, confidence 0.6 and data.source
\* = "user_question", adds no edge, and changes no existing node
C25_UnknownBySubstringCreates ==
    [][(/\ last'.op = "record_question_about"
        /\ SubstringMatches(last'.id, last'.arg) = {})
       => QuestionConceptCreated]_vars

\* C25 (amended): record_question_about(doc, name) on an unknown name (the
\* label filter of find_nodes matches no concept of doc to name) creates
\* exactly one new concept node with label name, doc_id doc, confidence 0.6
\* and data.source = "user_question", adds no edge, and changes no existing
\* node.
C25_UnknownCreates ==
    [][(/\ last'.op = "record_question_about"
        /\ LikeMatches(last'.id, last'.arg) = {})
       => QuestionConceptCreated]_vars

\* a question about a name that no concept matches made the concept
C25_Witness ==
    /\ last.op = "record_question_about"
    /\ last.arg = <<"z">>
    /\ Len(nodes) = Len(UpdaterNodes) + 1
    /\ nodes[Len(nodes)].label = <<"z">>
    /\ nodes[Len(nodes)].confidence = QuestionConfidence


\* C26: record_reread(doc, page) increases by exactly 0.1 per call the
\* weight of each mentions edge that points at a concept on that page, and
\* changes no other edge's weight, no node, and creates nothing.
C26_RereadAddsATenth ==
    [][last'.op = "record_reread"
       => /\ nodes' = nodes
          /\ DOMAIN edges' = DOMAIN edges
          /\ \A i \in DOMAIN edges :
                edges'[i] =
                    IF /\ edges[i].rel_type = "mentions"
                       /\ \E c \in ConceptsOnPage : edges[i].target_id = c.id
                    THEN [edges[i] EXCEPT !.weight = @ + RereadBoost]
                    ELSE edges[i]]_vars

\* C27: record_highlight(doc, page, text) creates exactly one annotation
\* node, links it by an annotated edge to the page's chunk when the chunk
\* exists, and raises the confidence of every concept on that page by 0.1
\* (clamped at 1) per call, leaving the confidence of nodes not on that page
\* unchanged.
C27_HighlightBoostsPageConcepts ==
    [][last'.op = "record_highlight"
       => /\ Cardinality(Added(nodes, nodes')) = 1
          /\ Len(nodes') = Len(nodes) + 1
          /\ \A annotation \in Added(nodes, nodes') :
                /\ annotation.type = "annotation"
                /\ \A e \in Added(edges, edges') :
                        /\ e.rel_type = "annotated"
                        /\ e.source_id = annotation.id
                        /\ e.target_id \in
                            {nodes[i].id : i \in ChunksOf(nodes, last'.id,
                                                          last'.delta)}
          /\ Len(edges') = Len(edges) + IF ChunkExists THEN 1 ELSE 0
          /\ SubSeq(edges', 1, Len(edges)) = edges
          /\ \A n \in Range(nodes) :
                RowOf(nodes', n.id).confidence
                    = IF n \in ConceptsOnPage
                      THEN Clamp01(n.confidence + HighlightBoost)
                      ELSE n.confidence]_vars


\* C28: mark_understood(doc, name) on a matching concept (the first that
\* find_nodes returns for name among the concepts of doc) sets
\* data.understood = true while keeping the node's id, type, label, doc_id
\* and other data keys, and raises its confidence by 0.2 (clamped at 1); when
\* no concept matches it changes nothing.
C28_UnderstoodMarksAndBoosts ==
    [][last'.op = "mark_understood"
       => /\ edges' = edges
          /\ IF LikeMatches(last'.id, last'.arg) = {}
             THEN nodes' = nodes
             ELSE \E c \in LikeMatches(last'.id, last'.arg) :
                    /\ \A m \in LikeMatches(last'.id, last'.arg) :
                            ~Outranks(m, c)
                    /\ Len(nodes') = Len(nodes)
                    /\ \A n \in Range(nodes) \ {c} : n \in Range(nodes')
                    /\ LET node == RowOf(nodes', c.id)
                       IN  /\ node.id = c.id
                           /\ node.type = c.type
                           /\ node.label = c.label
                           /\ node.doc_id = c.doc_id
                           /\ "understood" \in DOMAIN node.data
                           /\ node.data["understood"] = TRUE
                           /\ \A k \in DOMAIN c.data \ {"understood"} :
                                /\ k \in DOMAIN node.data
                                /\ node.data[k] = c.data[k]
                           /\ node.confidence
                                = Clamp01(c.confidence + UnderstoodBoost)]_vars

\* the concept "Ab" was marked understood under the name "B" after its
\* confidence had been lowered: it keeps its definition and its confidence
\* is 0.2 higher
C28_Witness ==
    /\ last.op = "mark_understood"
    /\ last.arg = <<"B">>
    /\ "understood" \in DOMAIN RowOf(nodes, "c1").data
    /\ RowOf(nodes, "c1").data["understood"] = TRUE
    /\ RowOf(nodes, "c1").data["definition"] = "def"
    /\ RowOf(nodes, "c1").confidence = 19
    /\ Len(edges) > Len(UpdaterEdges)


\* the operations of ConceptExtractor, GraphUpdater and GraphRetriever
LoggedOperations ==
    {"extract_from_document", "record_stuck", "record_highlight",
     "record_question_about", "record_reread", "mark_understood",
     "get_context_bundle", "get_concept_summary"}

\* C29: the behavioral log is append-only and the graph only grows: no
\* ConceptExtractor, GraphUpdater or GraphRetriever operation deletes a node
\* or an edge, and a signal or annotation node, once created, is never
\* modified by any later operation.
C29_LogAppendOnly ==
    [][last'.op \in LoggedOperations
       => /\ \A n \in Range(nodes) : n.id \in Ids(nodes')
          /\ Len(nodes') >= Len(nodes)
          /\ \A e \in Range(edges) :
                \E e2 \in Range(edges') :
                    /\ e2.id = e.id
                    /\ e2.source_id = e.source_id
                    /\ e2.target_id = e.target_id
                    /\ e2.rel_type = e.rel_type
          /\ Len(edges') >= Len(edges)
          /\ \A n \in Range(nodes) :
                n.type \in {"signal", "annotation"} => n \in Range(nodes')]_vars

\* a signal is in the log with its confused_at edges, and since then a
\* concept of its page has been re-saved by mark_understood
C29_Witness ==
    /\ last.op = "mark_understood"
    /\ CountType(nodes, "signal") = 1
    /\ \E n \in Range(nodes), e \in Range(edges) :
        /\ n.type = "signal"
        /\ e.source_id = n.id
        /\ e.rel_type = "confused_at"
        /\ e.target_id = "c1"
    /\ "understood" \in DOMAIN RowOf(nodes, "c1").data
    /\ nodes[Len(nodes)].id = "c1"


\* the concept nodes of the document of the call
ConceptsOfDocument ==
    {n \in Range(nodes) : n.type = "concept" /\ n.doc_id = last'.id}

\* the relationships of an answer, none when the answer is no JSON object
ReturnedRelationships(response) ==
    IF response.kind = "error" THEN <<>>
    ELSE IF parse_json(response).t # "object" THEN <<>>
    ELSE relationships_of(parse_json(response))

\* a returned relationship that names two concepts of the document and one
\* of the two relations
Storable(rel) ==
    /\ rel.relation \in {"depends_on", "explains"}
    /\ \E s \in ConceptsOfDocument : lower(s.label) = lower(rel.source)
    /\ \E t \in ConceptsOfDocument : lower(t.label) = lower(rel.target)

----------------------------------------------------------------------------
(* core/state_detector.py: StateDetector.detect over the reading signals.
   Times are whole seconds. *)

REREAD_THRESHOLD == 2
IDLE_TIRED_S == 90
IDLE_THRESHOLD_S == 30
PAGE_SKIP_THRESHOLD == 3
LONG_PAGE_TIME_S == 120
SCROLL_BACK_THRESHOLD == 3
\* the scroll-backs that make a long time on one page a sign of being stuck
LONG_PAGE_SCROLL_BACKS == 2

\* ReadingSignals(page_visits, time_on_current_page_s, idle_time_s,
\* pages_skipped, scroll_backs)
ReadingSignals(page_visits, time_on_current_page_s, idle_time_s,
               pages_skipped, scroll_backs) ==
    [page_visits |-> page_visits,
     time_on_current_page_s |-> time_on_current_page_s,
     idle_time_s |-> idle_time_s,
     pages_skipped |-> pages_skipped,
     scroll_backs |-> scroll_backs]

\* max(signals.page_visits.values()) if signals.page_visits else 0
max_visits(page_visits) ==
    IF DOMAIN page_visits = {} THEN 0
    ELSE CHOOSE v \in {page_visits[p] : p \in DOMAIN page_visits} :
            \A p \in DOMAIN page_visits : page_visits[p] <= v

detect(signals) ==
    LET visits == max_visits(signals.page_visits)
    IN  IF /\ visits >= REREAD_THRESHOLD
           /\ signals.scroll_backs >= SCROLL_BACK_THRESHOLD
        THEN "stuck"
        ELSE IF visits >= REREAD_THRESHOLD + 1 THEN "stuck"
        ELSE IF /\ signals.time_on_current_page_s > LONG_PAGE_TIME_S
                /\ signals.scroll_backs >= LONG_PAGE_SCROLL_BACKS
        THEN "stuck"
        ELSE IF signals.idle_time_s > IDLE_TIRED_S THEN "tired"
        ELSE IF signals.idle_time_s > IDLE_THRESHOLD_S THEN "idle"
        ELSE IF signals.pages_skipped >= PAGE_SKIP_THRESHOLD THEN "stuck"
        ELSE "focused"

\* the signals of the explored windows: the values around each threshold
DetectorVisits ==
    {<<>>, <<1>>, <<2>>, <<3>>, <<1, 2>>, <<3, 1>>}
DetectorPageTimes == {120, 121}
DetectorIdleTimes == {0, 30, 31, 90, 91}
DetectorSkips == {0, 2, 3}
DetectorScrollBacks == {0, 1, 2, 3}

DetectorInit ==
    /\ nodes = <<>>
    /\ edges = <<>>
    /\ last = [op |-> "init"]
    /\ ret = <<>>

\* state = _detector.detect(signals)
Detect(signals) ==
    /\ ret' = <<detect(signals)>>
    /\ last' = [op |-> "detect", signals |-> signals]
    /\ UNCHANGED <<nodes, edges>>

DetectorNext ==
    \E page_visits \in DetectorVisits, time \in DetectorPageTimes,
       idle_time \in DetectorIdleTimes, pages_skipped \in DetectorSkips,
       scroll_backs \in DetectorScrollBacks :
        Detect(ReadingSignals(page_visits, time, idle_time, pages_skipped,
                              scroll_backs))

SpecDetector == DetectorInit /\ [][DetectorNext]_vars

\* the stuck rules of the detector: re-read count, re-read plus
\* scroll-backs, long page time plus scroll-backs, page skipping
StuckRule(signals) ==
    \/ /\ max_visits(signals.page_visits) >= REREAD_THRESHOLD
       /\ signals.scroll_backs >= SCROLL_BACK_THRESHOLD
    \/ max_visits(signals.page_visits) >= REREAD_THRESHOLD + 1
    \/ /\ signals.time_on_current_page_s > LONG_PAGE_TIME_S
       /\ signals.scroll_backs >= LONG_PAGE_SCROLL_BACKS
    \/ signals.pages_skipped >= PAGE_SKIP_THRESHOLD

\* C32: detect gives stuck priority over idle and tired: whenever the
\* signals satisfy any of the stuck rules, detect returns stuck, even if the
\* idle time also exceeds the idle or tired threshold.
C32_StuckBeforeIdle ==
    (last.op = "detect" /\ StuckRule(last.signals)) => ret = <<"stuck">>


----------------------------------------------------------------------------
(* Callers of one store that interleave at the granularity of store calls:
   the connection is opened with check_same_thread=False and the store has
   no lock of its own, each statement is atomic.  One caller runs
   mark_understood, store call by store call; the others apply confidence
   deltas (the update_node_confidence calls of record_stuck,
   record_highlight and record_question_about). *)

\* the store calls of the other callers in one behaviour
MaxRaceWrites == 3
\* the confidence the concepts start with
RaceConfidence == 4

RaceNodes ==
    << Node("c1", "concept", <<"A", "b">>, DefinitionData("def"), "d1",
            RaceConfidence, 1),
       Node("c2", "concept", <<"c">>, NoData, "d1", RaceConfidence, 1) >>

RaceDeltas == {0 - StuckPenalty, HighlightBoost, QuestionBoost}

\* pc is the position of the mark_understood caller, applied the sum of the
\* deltas the other callers have applied to c1, writes their number
Racing(op, pc, applied, writes) ==
    [op |-> op, pc |-> pc, applied |-> applied, writes |-> writes]

RaceInit ==
    /\ nodes = RaceNodes
    /\ edges = <<>>
    /\ last = Racing("init", "idle", 0, 0)
    /\ ret = <<>>

\* matches = self.graph.find_nodes(..., label_contains=concept_name, limit=1)
UnderstoodFind(doc_id, concept_name) ==
    /\ last.pc = "idle"
    /\ ret' = find_concept(nodes, doc_id, concept_name)
    /\ last' = [last EXCEPT !.op = "find_nodes",
                            !.pc = IF ret' = <<>> THEN "done" ELSE "found"]
    /\ UNCHANGED <<nodes, edges>>

\* node = matches[0]; node.data["understood"] = True;
\* self.graph.add_node(node)
UnderstoodSave ==
    /\ last.pc = "found"
    /\ nodes' = add_node(nodes, [ret[1] EXCEPT
                                    !.data = put(@, "understood", TRUE)])
    /\ last' = [last EXCEPT !.op = "add_node", !.pc = "saved"]
    /\ UNCHANGED <<edges, ret>>

\* self.graph.update_node_confidence(node.id, 0.2)
UnderstoodRaise ==
    /\ last.pc = "saved"
    /\ nodes' = update_node_confidence(nodes, ret[1].id, UnderstoodBoost)
    /\ last' = [last EXCEPT !.op = "update_node_confidence", !.pc = "done"]
    /\ UNCHANGED <<edges, ret>>

\* self.graph.update_node_confidence(concept.id, delta) of another caller
OtherWriter(id, delta) ==
    /\ last.writes < MaxRaceWrites
    /\ nodes' = update_node_confidence(nodes, id, delta)
    /\ last' = [last EXCEPT !.op = "update_node_confidence",
                            !.writes = @ + 1,
                            !.applied = IF id = "c1" THEN @ + delta ELSE @]
    /\ UNCHANGED <<edges, ret>>

RaceNext ==
    \/ \E concept_name \in UnderstoodNames : UnderstoodFind("d1", concept_name)
    \/ UnderstoodSave
    \/ UnderstoodRaise
    \/ \E id \in {"c1", "c2"}, delta \in RaceDeltas : OtherWriter(id, delta)

SpecRace == RaceInit /\ [][RaceNext]_vars

\* C31: no update is lost when a GraphUpdater operation is interleaved with
\* another writer at the granularity of store calls: once mark_understood
\* has returned, the confidence of the concept it marked is its first
\* confidence plus every delta the other callers applied plus 0.2 (no sum
\* of the explored deltas leaves the range from 0 to 1).
C31_NoLostUpdate ==
    (last.pc = "done" /\ ret # <<>>)
        => RowOf(nodes, "c1").confidence
            = RaceConfidence + last.applied + UnderstoodBoost


----------------------------------------------------------------------------
(* Invariants of the tables *)

\* C33: in every reachable state, every stored edge's source_id and
\* target_id name nodes that exist in the store.
C33_EdgesReferenceNodes ==
    \A e \in Range(edges) :
        e.source_id \in Ids(nodes) /\ e.target_id \in Ids(nodes)

\* an edge naming an absent node was refused in a store that holds an edge,
\* its one node and nothing else
C33_Witness ==
    /\ last.op = "add_edge"
    /\ last.raised
    /\ last.row.target_id \notin Ids(nodes)
    /\ last.row.source_id \in Ids(nodes)
    /\ edges # <<>>
    /\ Len(nodes) = 1


\* C35: the confusion_history list of a bundle returned by
\* get_context_bundle contains at most 5 entries, however many signals
\* exist and however many confused_at edges each signal has.
C35_ConfusionHistoryBounded ==
    last.op = "get_context_bundle"
        => Len(ret[1].confusion_history) <= ConfusionLimit


----------------------------------------------------------------------------
(* get_context_bundle over the graph of the bundles while record_reread
   reinforces the mentions edges: page 2 comes to mention the third and the
   fifth concept of page 1 *)

ReinforcedNext ==
    \/ \E q \in BundleQueries : GetContextBundle(q[1], q[2], q[3], q[4], q[5])
    \/ \E c \in {"c3", "c5"} : LinkBundle("p2", c, "mentions")
    \/ \E page \in {1, 2} : RecordReread("d1", page)

SpecReinforced == BundleInit /\ [][ReinforcedNext]_vars

\* the mentions edges from a chunk of the page of the last call to a node
PageMentionsOf(id) ==
    {e \in Range(edges) :
        /\ e.rel_type = "mentions"
        /\ e.target_id = id
        /\ \E p \in Range(nodes) :
            p.id = e.source_id /\ is_chunk_of(p, last.id, last.delta)}

\* the largest weight with which the page of the last call mentions a node
MentionWeight(id) ==
    CHOOSE w \in {e.weight : e \in PageMentionsOf(id)} :
        \A e \in PageMentionsOf(id) : e.weight <= w

\* C34: get_concepts_for_page returns its nodes in non-increasing order of
\* the weight of the mentions edge that links each node to the page's chunk,
\* so when a page has more concepts than max_concepts, get_context_bundle
\* keeps the concepts with the highest mentions weights and drops the
\* lowest: no dropped concept is mentioned with a higher weight than a
\* listed one.
C34_HeaviestConceptsKept ==
    last.op = "get_context_bundle"
    => LET rows == get_concepts_for_page(nodes, edges, last.id, last.delta)
           concepts == {c \in MentionedOnPage(last.id, last.delta) :
                            c.type = "concept"}
           listed == {c \in concepts :
                        \E i \in DOMAIN Bundle.concepts :
                            Bundle.concepts[i].name = c.label}
       IN  /\ \A i \in DOMAIN rows, j \in DOMAIN rows :
                i < j => \E e \in PageMentionsOf(rows[i].id),
                            f \in PageMentionsOf(rows[j].id) :
                                e.weight >= f.weight
           /\ Len(Bundle.concepts) = Min(last.max_concepts,
                    Len(SelectSeq(rows, LAMBDA n : n.type = "concept")))
           /\ \A kept \in listed, dropped \in concepts \ listed :
                MentionWeight(kept.id) >= MentionWeight(dropped.id)

\* a re-read of page 2 has reinforced the third concept of page 1, and the
\* bundle of page 1 with room for one concept lists that concept
C34_Witness ==
    /\ last.op = "get_context_bundle"
    /\ last.delta = 1
    /\ last.max_concepts = 1
    /\ RowOf(edges, "m05").weight > WeightOne
    /\ RowOf(edges, "m01").weight = WeightOne
    /\ Len(Bundle.concepts) = 1
    /\ Bundle.concepts[1].name = <<"c">>

----------------------------------------------------------------------------
(* The counts that extraction returns *)

\* the answers of the model under which the counts are compared: no answer
\* and a well-formed one
CountsResponses == {Unreachable, Text("plain", WellFormed)}
CountsCrossResponses ==
    {Unreachable,
     Text("plain", JRelations(<<Relation(<<"a">>, <<"B">>, "depends_on")>>))}

\* extract_from_page and extract_from_document called on the same store
CountsNext ==
    \/ \E node \in ExtractConcepts : AddNode(node)
    \/ \E doc_id \in ExtractDocs, page \in ExtractPages,
          text \in ExtractTexts, response \in CountsResponses :
            ExtractFromPage(doc_id, page, text, response)
    \/ \E doc_id \in DocumentDocs, pages \in DocumentPages,
          cross_response \in CountsCrossResponses :
        \E responses \in [DOMAIN pages -> CountsResponses] :
            ExtractFromDocument(doc_id, pages, responses, cross_response)

SpecCounts == ExtractInit /\ [][CountsNext]_vars

\* C36: the result of an extraction matches what it wrote: for every
\* extract_from_page call that returns, concepts_added is the number of
\* concept nodes the call added to the store, claims_added the number of
\* claim nodes and edges_added the number of edges; the result of
\* extract_from_document is the same count over the whole call, that is the
\* sum over its pages plus the edges of the cross-page pass.
C36_ResultMatchesWrites ==
    [][(/\ last'.op \in {"extract_from_page", "extract_from_document"}
        /\ ret' # <<>>)
       => /\ ret'[1].concepts_added
                = CountType(nodes', "concept") - CountType(nodes, "concept")
          /\ ret'[1].claims_added
                = CountType(nodes', "claim") - CountType(nodes, "claim")
          /\ ret'[1].edges_added = Len(edges') - Len(edges)]_vars

\* a document that holds two concepts was extracted from two full pages:
\* both pages have their chunk, the cross-page pass was reached with two
\* concepts to relate, and the call returned its counts
C36_Witness ==
    /\ last.op = "extract_from_document"
    /\ Len(last.pages) = 2
    /\ LongPages(last.pages) = {1, 2}
    /\ ~last.raised
    /\ last.cross_ran
    /\ ret # <<>>
    /\ CountType(nodes, "concept") = 2
    /\ CountType(nodes, "page_chunk") >= 2
    /\ CountType(nodes, "document") = 1

----------------------------------------------------------------------------
(* Two documents in one store *)

\* two documents, each with the chunk of its first page and a concept that
\* the chunk mentions
ScopeNodes ==
    << Node("p1", "page_chunk", <<"p">>, PageData(1), "d1", ConfOne, 1),
       Node("c1", "concept", <<"A", "b">>, DefinitionData("def"), "d1", 17, 1),
       Node("q1", "page_chunk", <<"p">>, PageData(1), "d2", ConfOne, 1),
       Node("e1", "concept", <<"c">>, NoData, "d2", 10, 1) >>

ScopeEdges ==
    << Edge("m1", "p1", "c1", "mentions", WeightOne),
       Edge("m2", "q1", "e1", "mentions", WeightOne) >>

ScopeDocs == {"d1", "d2"}
\* a name that the second document knows and the first does not
ScopeNames == {<<"c">>}

ScopeInit ==
    /\ nodes = ScopeNodes
    /\ edges = ScopeEdges
    /\ last = Call("init", "", 0, None, FALSE, 0)
    /\ ret = <<>>

\* the calls of the routes and of the background extraction, for either
\* document in any order
ScopeNext ==
    \/ \E doc_id \in ScopeDocs : RecordStuck(doc_id, 1, "stuck")
    \/ \E doc_id \in ScopeDocs, text \in UpdaterTexts :
            RecordHighlight(doc_id, 1, text)
    \/ \E doc_id \in ScopeDocs, concept_name \in ScopeNames :
            RecordQuestionAbout(doc_id, concept_name)
    \/ \E doc_id \in ScopeDocs, concept_name \in ScopeNames :
            MarkUnderstood(doc_id, concept_name)
    \/ \E doc_id \in ScopeDocs : GetConceptsForPage(doc_id, 1)
    \/ \E doc_id \in ScopeDocs : LookUpBundle(doc_id, 1)
    \/ \E doc_id \in ScopeDocs : LookUpSummary(doc_id)
    \/ \E doc_id \in ScopeDocs, text \in UpdaterPageTexts :
            ExtractUpdater(doc_id, 1, text, Unreachable)

SpecScope == ScopeInit /\ [][ScopeNext]_vars

\* the document of the node with the given id
DocOf(N, id) == get_node(N, id).doc_id

\* the labels of the nodes of a document
LabelsOf(N, doc_id) == {n.label : n \in {m \in Range(N) : m.doc_id = doc_id}}

\* C37: doc_id scopes the graph: after any interleaving of extractions and
\* updater calls over two documents, every node a call creates for document
\* d has doc_id = d, every edge a call creates connects two nodes of the
\* same document, and get_concepts_for_page, get_context_bundle and
\* get_concept_summary for d return only data of nodes with doc_id = d.
C37_DocIdScopes ==
    [][last'.op # "init"
       => /\ \A n \in Added(nodes, nodes') : n.doc_id = last'.id
          /\ \A e \in Added(edges, edges') :
                /\ e.source_id \in Ids(nodes') /\ e.target_id \in Ids(nodes')
                /\ DocOf(nodes', e.source_id) = last'.id
                /\ DocOf(nodes', e.target_id) = last'.id
          /\ last'.op = "get_concepts_for_page"
                => \A i \in DOMAIN ret' : ret'[i].doc_id = last'.id
          /\ last'.op = "get_concept_summary"
                => \A i \in DOMAIN ret' :
                      /\ DocOf(nodes, ret'[i].id) = last'.id
                      /\ \A j \in DOMAIN ret'[i].depends_on :
                            DocOf(nodes, ret'[i].depends_on[j]) = last'.id
          /\ last'.op = "get_context_bundle"
                => /\ \A i \in DOMAIN ret'[1].concepts :
                        ret'[1].concepts[i].name \in LabelsOf(nodes, last'.id)
                   /\ \A i \in DOMAIN ret'[1].prerequisites :
                        ret'[1].prerequisites[i].name
                            \in LabelsOf(nodes, last'.id)
                   /\ \A i \in DOMAIN ret'[1].claims :
                        ret'[1].claims[i].statement
                            \in LabelsOf(nodes, last'.id)
                   /\ \A i \in DOMAIN ret'[1].confusion_history :
                        ret'[1].confusion_history[i].concept
                            \in LabelsOf(nodes, last'.id)]_vars

\* the reader got stuck on the first page of the first document, the
\* second document was extracted again, and the bundle of the second
\* document's page lists its concept and nothing of the first document
C37_Witness ==
    /\ last.op = "get_context_bundle"
    /\ last.id = "d2"
    /\ \E e \in Range(edges) :
          /\ e.rel_type = "confused_at" /\ e.target_id = "c1"
          /\ DocOf(nodes, e.source_id) = "d1"
    /\ \E n \in Range(nodes) : n.type = "document" /\ n.doc_id = "d2"
    /\ Cardinality(ChunksOf(nodes, "d2", 1)) = 2
    /\ Len(ret[1].concepts) = 1
    /\ ret[1].concepts[1].name = <<"c">>
    /\ ret[1].confusion_history = <<>>

----------------------------------------------------------------------------
(* Extraction after the updater has written *)

\* the concept and claim rows of a table
ConceptAndClaimRows(N) == {n \in Range(N) : n.type \in {"concept", "claim"}}

----------------------------------------------------------------------------
(* routes.py: upload_pdf, _run_extraction and health on the event loop *)

\* the uploads up to which the application is explored
MaxUploads == 2

\* the module state of routes.py and the tasks of the event loop: _doc_id,
\* _extraction_in_progress, the _run_extraction tasks that add_task has
\* scheduled and that have not started, the task that has started and not
\* finished, and the outcome of the task that finished last
Serving(op, doc_id, flag, queue, running, uploads, outcome) ==
    [op |-> op, doc_id |-> doc_id, flag |-> flag, queue |-> queue,
     running |-> running, uploads |-> uploads, outcome |-> outcome]

\* the arguments of a scheduled _run_extraction(doc_id, pages)
Task(doc_id, pages) == [doc_id |-> doc_id, pages |-> pages]

\* what a finished task leaves: the pages it was given, the generate() calls
\* it issued, the exception that its except clause caught and the exception
\* that left the task ("" for none)
Outcome(pages, generated, caught, escaped) ==
    [pages |-> pages, generated |-> generated, caught |-> caught,
     escaped |-> escaped]
NoOutcome == Outcome(<<>>, 0, "", "")

\* str(uuid.uuid4()) of the n-th upload
upload_id(n) == <<"d1", "d2", "d3", "d4">>[n]

\* the exceptions that "except Exception" catches: every exception that
\* extract_from_document can raise is a subclass of Exception
is_exception(raised) ==
    raised \in {"KeyError", "AttributeError", "IntegrityError"}

\* a task that starts without raising the flag
started_unflagged(A, task) == [A EXCEPT !.running = <<task>>]

\* global _extraction_in_progress; _extraction_in_progress = True
started(A, task) == [A EXCEPT !.flag = TRUE, !.running = <<task>>]

\* a task that ends without its finally clause
finished_without_finally(A, r) ==
    [A EXCEPT !.running = <<>>,
              !.outcome = Outcome(A.running[1].pages, r.generated,
                                  r.raised, "")]

\* except Exception as e: logger.error(...); finally:
\* _extraction_in_progress = False
finished(A, r) ==
    [A EXCEPT !.flag = FALSE,
              !.running = <<>>,
              !.outcome =
                    Outcome(A.running[1].pages, r.generated,
                            IF is_exception(r.raised) THEN r.raised ELSE "",
                            IF is_exception(r.raised) THEN "" ELSE r.raised)]

\* the page lists of the uploads: a page too short to extract, two full
\* pages, a full page after a short one
ServingPages ==
    { <<[page |-> 1, text |-> [len |-> 60, stripped |-> 49]]>>,
      <<[page |-> 1, text |-> [len |-> 50, stripped |-> 50]],
        [page |-> 2, text |-> [len |-> 50, stripped |-> 50]]>>,
      <<[page |-> 1, text |-> [len |-> 60, stripped |-> 49]],
        [page |-> 2, text |-> [len |-> 50, stripped |-> 50]]>> }

ServingInit ==
    /\ nodes = <<>>
    /\ edges = <<>>
    /\ last = Serving("init", "", FALSE, <<>>, <<>>, 0, NoOutcome)
    /\ ret = <<>>

\* POST /api/upload: a new _doc_id and a scheduled _run_extraction; the
\* handler runs on the event loop, so no task is in its middle
UploadPdf(pages) ==
    /\ last.running = <<>>
    /\ last.uploads < MaxUploads
    /\ \E doc_id \in {upload_id(last.uploads + 1)} :
        last' = [last EXCEPT !.op = "upload_pdf",
                             !.doc_id = doc_id,
                             !.uploads = @ + 1,
                             !.queue = Append(@, Task(doc_id, pages))]
    /\ ret' = <<[extracting |-> TRUE]>>
    /\ UNCHANGED <<nodes, edges>>

\* a scheduled _run_extraction starts once its upload's response is sent:
\* the tasks of different requests start in any order
BeginExtraction(i) ==
    /\ last.running = <<>>
    /\ i \in DOMAIN last.queue
    /\ last' = [started(last, last.queue[i]) EXCEPT
                    !.op = "_run_extraction",
                    !.queue = [j \in 1..(Len(@) - 1) |->
                                    IF j < i THEN @[j] ELSE @[j + 1]]]
    /\ ret' = <<>>
    /\ UNCHANGED <<nodes, edges>>

\* the rest of _run_extraction: await extract_from_document, which as long
\* as no generate() call is awaited does not yield to the event loop;
\* responses[i] is the model's answer for the i-th page if it is asked
FinishExtraction(responses, cross_response) ==
    /\ last.running # <<>>
    /\ \E r \in {extract_from_document(nodes, edges, last.running[1].doc_id,
                                      last.running[1].pages, responses,
                                      cross_response)} :
        /\ nodes' = r.N
        /\ edges' = r.E
        /\ last' = [finished(last, r) EXCEPT !.op = "_run_extraction done"]
    /\ ret' = <<>>

\* GET /api/health
Health ==
    /\ last.running = <<>>
    /\ last' = [last EXCEPT !.op = "health"]
    /\ ret' = <<[extraction_in_progress |-> last.flag]>>
    /\ UNCHANGED <<nodes, edges>>

ServingNext ==
    \/ \E pages \in ServingPages : UploadPdf(pages)
    \/ \E i \in 1..MaxUploads : BeginExtraction(i)
    \/ \E cross_response \in CountsCrossResponses :
        \E responses \in [1..2 -> CountsResponses] :
            FinishExtraction(responses, cross_response)
    \/ Health

SpecServing == ServingInit /\ [][ServingNext]_vars

SpecServingFair ==
    SpecServing
    /\ WF_vars(\E cross_response \in CountsCrossResponses :
                \E responses \in [1..2 -> CountsResponses] :
                    FinishExtraction(responses, cross_response))

\* C40: every started background extraction eventually finishes, provided
\* each model call returns or fails: for a document of n pages it issues at
\* most n + 1 model calls, at most one for each page of at least 50 trimmed
\* characters and one for the cross-page pass, and when it ends, whether it
\* succeeded or raised, the flag is false again and no exception has left
\* the task.
C40_ExtractionEnds ==
    /\ [](last.op = "_run_extraction done"
            => /\ ~last.flag
               /\ last.running = <<>>
               /\ last.outcome.escaped = ""
               /\ last.outcome.generated
                    <= Cardinality(LongPages(last.outcome.pages)) + 1
               /\ last.outcome.generated <= Len(last.outcome.pages) + 1)
    /\ (last.running # <<>>) ~> (last.running = <<>> /\ ~last.flag)

\* the second of two uploads, a document of two full pages, has been
\* extracted: both chunks are written, no task is left and the flag is down
C40_Witness ==
    /\ last.op = "_run_extraction done"
    /\ last.uploads = 2
    /\ last.queue = <<>>
    /\ last.running = <<>>
    /\ ~last.flag
    /\ LongPages(last.outcome.pages) = {1, 2}
    /\ CountType(nodes, "document") = 2
    /\ CountType(nodes, "page_chunk") >= 2

============================================================================
